---- MODULE Spec2Model ----
(***************************************************************************)
(* State-machine model of js/chat/rtcSession.js: the RtcSession facade,    *)
(* its outgoing call-request protocol (startMediaCall), the answer path of *)
(* incoming requests, and the reference-counted shared local stream        *)
(* (RtcSession.gLocalStream / gLocalStreamRefcount / gLocalVid).           *)
(*                                                                         *)
(* JavaScript is run-to-completion: every action below is one whole        *)
(* handler (a public method call, a transport handler, a timer callback or *)
(* a getUserMedia callback) including every helper it calls.               *)
(*                                                                         *)
(* The media engine (connection.jingle) and the transport (Strophe) are    *)
(* not part of the modelled file.  The engine's session table is modelled  *)
(* from the specification (SessionRegistry); the transport's handler list  *)
(* changes only through the addHandler / deleteHandler calls of the code.  *)
(***************************************************************************)
EXTENDS Integers, Sequences, FiniteSets, TLC

\* Number of call slots (outgoing invitations plus incoming requests) that
\* the environment may create in one behaviour.
MaxCalls == 2

\* The RtcSession instances living in one JS context; they share the
\* RtcSession.g* globals.
Insts == {1, 2}

\* The instances whose methods the environment of Spec drives.
Driven == {1}

\* Full identities of the peers.  "b" has two resources, "c" has one.
FullJids == {"b/r1", "b/r2", "c/r1"}

\* Strophe.getBareJidFromJid on the identities above.
getBareJidFromJid(j) ==
    CASE j \in {"b", "b/r1", "b/r2"} -> "b"
      [] j \in {"c", "c/r1"} -> "c"

\* The test of the resource with its result inverted.
hasResourceInverted(j) == j \notin FullJids

\* Strophe.getResourceFromJid(j) is non-empty.
hasResource(j) == j \in FullJids

\* The targets startMediaCall is given: a bare identity and a full one.
Targets == {"b", "b/r1"}

\* The resources that may answer an invitation sent to a target: the
\* handlers are registered with {matchBare: true}.
Responders(t) == {j \in FullJids : getBareJidFromJid(j) = getBareJidFromJid(t)}

\* The identities incoming requests come from.
Callers == {"c/r1"}

Calls == 1..MaxCalls

\* The presence handlers one instance has registered at a time: the
\* transport reports CONNECTED while fewer are registered.
MaxConnects == 2

\* The longest text of a message body.
MaxText == 4

\* The device-open requests that are outstanding at a time when an observer
\* accepts an incoming request and makes one more.
MaxRequests == 2

VARIABLES
    gLocalStream,          \* RtcSession.gLocalStream is set (not null)
    gLocalStreamRefcount,  \* RtcSession.gLocalStreamRefcount
    gLocalVid,             \* RtcSession.gLocalVid is set (not null)
    captures,              \* capture devices opened and not yet stopped
    usedLocalStream,       \* this._usedLocalStream, per instance
    sessions,              \* jingle.sessions of each instance (peer full ids)
    sessionOrder,          \* per instance: the peers of its sessions in the
                           \* order the keys of jingle.sessions and
                           \* jingle.jid2session enumerate (insertion order)
    acquired,              \* ghost, per instance: _refLocalStream of the
                           \* instance has run
    call,                  \* per call slot: the closure of startMediaCall /
                           \* of the answer function of an incoming request
    deviceTracks,          \* numbers of audio and video tracks of the stream
                           \* the capture device delivers
    presenceHandlers,      \* per instance: presence-unavailable handlers
                           \* registered with the connection
    connected,             \* ghost, per instance: the transport reported
                           \* CONNECTED
    bodyText               \* the text of a message body: as the sender
                           \* wrote it, and as it is at its present stage

vars == <<gLocalStream, gLocalStreamRefcount, gLocalVid, captures,
          usedLocalStream, sessions, sessionOrder, acquired, call,
          deviceTracks, presenceHandlers, connected, bodyText>>

\* The media options a caller may pass to startMediaCall.
MediaOptions ==
    {[audio |-> TRUE, video |-> TRUE], [audio |-> TRUE, video |-> FALSE],
     [audio |-> FALSE, video |-> TRUE]}

\* The options of a full audio and video call.
DefaultOptions == [audio |-> TRUE, video |-> TRUE]

\* The numbers of audio and video tracks of the stream the capture device
\* delivers for the constraints {audio: true, video: true}, and of its
\* clones made with the same options: a microphone and a camera.
StreamTracks == [audio |-> 1, video |-> 1]

\* Every value of the options {audio, video}.
AllMediaOptions == [audio : BOOLEAN, video : BOOLEAN]

\* The streams a capture device can deliver: a microphone, a camera or both.
DeviceStreams ==
    {t \in [audio : 0..1, video : 0..1] : t.audio + t.video > 0}

\* A derivation of the MutedState that looks at the options only.
mediaOptionsToMutedStateByOptions(options, tracks) ==
    [audio |-> ~options.audio, video |-> ~options.video]

\* RtcSession.mediaOptionsToMutedState(options, stream); tracks are the
\* numbers of audio and video tracks of stream.
mediaOptionsToMutedState(options, tracks) ==
    [audio |-> (~options.audio /\ tracks.audio > 0),
     video |-> (~options.video /\ tracks.video > 0)]

\* A call slot nobody used yet.
NoCall ==
    [kind |-> "none", inst |-> 1, peer |-> "b", isBroadcast |-> FALSE,
     options |-> DefaultOptions,
     gum |-> "none", ansHandler |-> FALSE, declineHandler |-> FALSE,
     ansReg |-> FALSE, declReg |-> FALSE, timer |-> "none",
     sessStream |-> FALSE, valid |-> FALSE,
     outcome |-> "none", nres |-> 0, pend |-> <<>>]

\* The whole state as one record, threaded through the helpers that one
\* handler calls.  out collects what the handler does, in order (messages
\* sent, events triggered, handlers registered and deleted), ret is the
\* value it returns, thrown is set when an exception ends it, drops counts
\* the assignments of the handler that took gLocalStreamRefcount from 1
\* to 0.  dup, match and fate are what the media engine and the transport
\* answer during the handler (DuplicateReplies, JidMatches, HandlerFates);
\* "unasked" is none of them: a step that asks gets the answer as its
\* input (OnDuplicate, ByJid, Fate).
Mem == [stream |-> gLocalStream, refcount |-> gLocalStreamRefcount,
        vid |-> gLocalVid, captures |-> captures, used |-> usedLocalStream,
        sess |-> sessions, ord |-> sessionOrder, acq |-> acquired,
        call |-> call, tracks |-> deviceTracks,
        pres |-> presenceHandlers, conn |-> connected,
        dup |-> "unasked", match |-> "unasked", fate |-> "unasked",
        out |-> <<>>, ret |-> "none", thrown |-> FALSE, drops |-> 0]

\* The media engine (connection.jingle) and the transport are collaborators
\* of the program.  What the engine does when jingle.initiate or
\* ansFunc(true, ...) asks for a session with an identity that has one:
\* it rejects the new session, or it takes the new session in place of
\* the one it had for the identity.
DuplicateReplies == {"reject", "replace"}

\* How jingle.terminateByJid(jid) selects: the sessions whose peer is jid,
\* or the sessions whose peer has the bare identity of jid.
JidMatches == {"full", "bare"}

\* What the transport does with a handler that returned undefined: it
\* keeps it for the next stanza, or it removes it.
HandlerFates == {"kept", "removed"}

\* The state a step starts in, with the answer of a collaborator.
OnDuplicate(m, d) == [m EXCEPT !.dup = d]

ByJid(m, t) == [m EXCEPT !.match = t]

Fate(m, f) == [m EXCEPT !.fate = f]

\* The engine decides about a second session only when the identity has
\* one: its possible answers when instance i starts a session with j.
DuplicateRepliesFor(i, j) ==
    IF j \in sessions[i] THEN DuplicateReplies ELSE {"unasked"}

\* jingle.terminateByJid selects among the sessions of the table: its
\* possible selections when hangup(jid) is called on instance i.  Without
\* an identity hangup calls terminateAll.
JidMatchesFor(i, jid) ==
    IF jid = "none" \/ sessions[i] = {} THEN {"unasked"} ELSE JidMatches

\* One observable effect: kind is "send", "event", "addHandler",
\* "deleteHandler", "setTimeout", "call", "warn" or "throw".
Emit(m, kind, name, c, a, b) ==
    [m EXCEPT !.out = Append(@, <<kind, name, c, a, b>>)]

Throw(m, name, c) ==
    [Emit(m, "throw", name, c, "", "") EXCEPT !.thrown = TRUE]

\* The values of RtcSession.gLocalStreamRefcount: <<n>> is the number n,
\* <<>> is a value that is no number.  The property is not assigned when
\* the file is loaded, so it is undefined until _myGetUserMedia assigns 0;
\* arithmetic on undefined gives NaN, and every comparison of undefined or
\* NaN with a number is false.
NoNumber == <<>>

Number(n) == <<n>>

\* v + d as the ++ and -- of the file compute it.
Plus(v, d) == IF v = NoNumber THEN NoNumber ELSE Number(v[1] + d)

\* v > n as the file tests it.
Greater(v, n) == v # NoNumber /\ v[1] > n

\* A _refLocalStream that sets the flag of the instance and forgets the
\* count.
refLocalStreamNoCount(m, i) ==
    [m EXCEPT !.used[i] = TRUE, !.acq[i] = TRUE]

\* RtcSession.prototype._refLocalStream
refLocalStream(m, i) ==
    [m EXCEPT !.used[i] = TRUE, !.refcount = Plus(@, 1), !.acq[i] = TRUE]

\* An _unrefLocalStream without its guard.
unrefGuardAbsent(m, i) == FALSE

\* The guard of _unrefLocalStream: the instance holds no reference.
unrefGuard(m, i) == ~m.used[i]

\* What an observer finds in RtcSession.gLocalVid / RtcSession.gLocalStream.
Ref(set, name) == IF set THEN name ELSE "null"

\* The teardown notification: local-player-remove with {player: gLocalVid},
\* delivered synchronously; the entry keeps the player of the payload and
\* the shared stream as the observers find them.
notifyTeardown(m) ==
    Emit(m, "event", "local-player-remove", 0,
         Ref(m.vid, "gLocalVid"), Ref(m.stream, "gLocalStream"))

\* An _unrefLocalStream that stops and clears the player and the stream
\* first and notifies afterwards.
unrefLocalStreamClearsFirst(m, i) ==
    IF unrefGuard(m, i) THEN m
    ELSE LET cnt == Plus(m.refcount, -1)
             m1 == [m EXCEPT !.used[i] = FALSE, !.refcount = cnt,
                             !.drops = IF m.refcount = Number(1) THEN @ + 1 ELSE @]
         IN IF Greater(cnt, 0) THEN m1
            ELSE IF ~m1.stream
            THEN Emit(m1, "warn", "gLocalStream is null", 0, "", "")
            ELSE IF ~m1.vid
            THEN Throw(m1, "gLocalVid is null", 0)
            ELSE LET m2 == Emit(m1, "call", "gLocalVid.pause", 0, "", "")
                     m3 == Emit([m2 EXCEPT !.vid = FALSE],
                                "call", "gLocalStream.stop", 0, "", "")
                 IN notifyTeardown([m3 EXCEPT !.stream = FALSE,
                                              !.captures = @ - 1])

\* RtcSession.prototype._unrefLocalStream
unrefLocalStream(m, i) ==
    IF unrefGuard(m, i) THEN m
    ELSE LET cnt == Plus(m.refcount, -1)
             m1 == [m EXCEPT !.used[i] = FALSE, !.refcount = cnt,
                             !.drops = IF m.refcount = Number(1) THEN @ + 1 ELSE @]
         IN IF Greater(cnt, 0) THEN m1
            ELSE IF ~m1.stream
            THEN Emit(m1, "warn", "gLocalStream is null", 0, "", "")
            ELSE LET m2 == notifyTeardown(m1)
                 IN IF ~m2.vid
                    THEN Throw(m2, "gLocalVid is null", 0)
                    ELSE LET m3 == Emit(m2, "call", "gLocalVid.pause",
                                        0, "", "")
                             m4 == Emit([m3 EXCEPT !.vid = FALSE],
                                        "call", "gLocalStream.stop", 0, "", "")
                         IN [m4 EXCEPT !.stream = FALSE, !.captures = @ - 1]

\* A _freeLocalStreamIfUnused without the test of the session table.
freeLocalStreamAlways(m, i) == unrefLocalStream(m, i)

\* RtcSession.prototype._freeLocalStreamIfUnused on instance i.
freeLocalStreamIfUnused(m, i) ==
    IF Cardinality(m.sess[i]) > 0 THEN m ELSE unrefLocalStream(m, i)

\* An onCallTerminated that releases the shared stream before it reports
\* the end of the call.
onCallTerminatedReleasesFirst(m, i, j, localStream) ==
    LET m0 == IF localStream
              THEN Emit(m, "call", "sess.localStream.stop", 0, j, "")
              ELSE m
        m1 == freeLocalStreamIfUnused(m0, i)
        m2 == Emit(m1, "event", "remote-player-remove", 0, j, "")
    IN Emit(m2, "event", "call-ended", 0, j, "")

\* RtcSession.prototype.onCallTerminated(sess) for a session with peer j;
\* localStream tells whether sess.localStream is set.  The session's own
\* local stream, if it has one, is stopped, removeVideo triggers
\* remote-player-remove, call-ended is triggered, then
\* _freeLocalStreamIfUnused runs.
onCallTerminated(m, i, j, localStream) ==
    LET m0 == IF localStream
              THEN Emit(m, "call", "sess.localStream.stop", 0, j, "")
              ELSE m
        m1 == Emit(m0, "event", "remote-player-remove", 0, j, "")
        m2 == Emit(m1, "event", "call-ended", 0, j, "")
    IN freeLocalStreamIfUnused(m2, i)

\* The engine ends the session with peer j: it leaves the session table,
\* then the onCallTerminated callback runs.  Every session of the table
\* was started with a clone of the shared stream (jingle.initiate and
\* ansFunc(true, ...) both get sessStream), so its localStream is set.
terminateSession(m, i, j) ==
    onCallTerminated([m EXCEPT !.sess[i] = @ \ {j},
                               !.ord[i] = SelectSeq(@, LAMBDA x : x # j)],
                     i, j, TRUE)

\* jingle.initiate / ansFunc(true, ...): the engine registers the session
\* with peer j it starts for call slot c.  When the identity has a session
\* it either rejects the new one (DuplicateSessionError, the table stays as
\* it is) or returns normally, and the entry of the identity then refers
\* to the new session.
registerSession(m, i, j, c) ==
    IF j \notin m.sess[i]
    THEN [m EXCEPT !.sess[i] = @ \cup {j}, !.ord[i] = Append(@, j)]
    ELSE CASE m.dup = "reject" -> Throw(m, "DuplicateSessionError", c)
           [] m.dup = "replace" -> m

\* The guard of the accept handler: if (!ansHandler) return;
acceptGuard(m, c) == ~m.call[c].ansHandler

\* The guard of the decline handler: if (!ansHandler) return;
declineGuard(m, c) == ~m.call[c].ansHandler

\* A timer guard that tests the registration of the accept handler in the
\* transport instead of the cleared token.
timeoutGuardByRegistration(m, c) == ~m.call[c].ansReg

\* A timer guard with the test inverted: if (ansHandler) return;
timeoutGuardInverted(m, c) == m.call[c].ansHandler

\* The guard of the timer callback: if (!ansHandler) return;
timeoutGuard(m, c) == ~m.call[c].ansHandler

\* The guard of cancel(): if (!ansHandler) return false;
cancelGuard(m, c) == ~m.call[c].ansHandler

\* connection.deleteHandler(ansHandler)
deleteAnsHandler(m, c) ==
    Emit([m EXCEPT !.call[c].ansReg = FALSE],
         "deleteHandler", "megaCallAnswer", c, "", "")

\* The decline handler is left registered.
deleteDeclineHandlerForgotten(m, c) == m

\* connection.deleteHandler(declineHandler)
deleteDeclineHandler(m, c) ==
    Emit([m EXCEPT !.call[c].declReg = FALSE],
         "deleteHandler", "megaCallDecline", c, "", "")

\* Ghost bookkeeping: resolution path o took effect for call c.
Resolve(m, c, o) ==
    [m EXCEPT !.call[c].outcome = o,
              !.call[c].nres = IF @ < 2 THEN @ + 1 ELSE @]

\* The call self.jingle.initiate(fullPeerJid, myJid, sessStream,
\* mediaOptionsToMutedState(options, sessStream)) of the accept handler:
\* peer is the identity it passes, options the options it derives the
\* MutedState from; stream names the call whose clone is passed (0: none).
initiate(m, c, peer, options) ==
    Emit(m, "call", "jingle.initiate", c, peer,
         [stream |-> IF m.call[c].sessStream THEN c ELSE 0,
          muted |-> mediaOptionsToMutedState(options, m.tracks)])

\* An accept handler that initiates the session with the identity the
\* invitation was sent to instead of the identity that answered.
onCallAnswerToTarget(m, c, from) ==
    IF acceptGuard(m, c) THEN m
    ELSE LET i  == m.call[c].inst
             m0 == deleteDeclineHandler(m, c)
             m1 == [m0 EXCEPT !.call[c].declineHandler = FALSE,
                              !.call[c].ansHandler = FALSE]
             m2 == IF m1.call[c].isBroadcast
                   THEN Emit(m1, "send", "megaNotifyCallHandled", c,
                             getBareJidFromJid(m1.call[c].peer),
                             [by |-> from, accepted |-> "1"])
                   ELSE m1
             m3 == registerSession(
                       initiate(Resolve(m2, c, "accept"), c, m2.call[c].peer,
                                m2.call[c].options),
                       i, from, c)
         IN IF m3.thrown THEN m3
            ELSE Emit(m3, "event", "call-init", c, from, "")

\* The accept handler of startMediaCall (type megaCallAnswer), for an
\* accept message from the full identity from.
onCallAnswer(m, c, from) ==
    IF acceptGuard(m, c) THEN m
    ELSE LET i  == m.call[c].inst
             m0 == deleteDeclineHandler(m, c)
             m1 == [m0 EXCEPT !.call[c].declineHandler = FALSE,
                              !.call[c].ansHandler = FALSE]
             m2 == IF m1.call[c].isBroadcast
                   THEN Emit(m1, "send", "megaNotifyCallHandled", c,
                             getBareJidFromJid(m1.call[c].peer),
                             [by |-> from, accepted |-> "1"])
                   ELSE m1
             m3 == registerSession(
                       initiate(Resolve(m2, c, "accept"), c, from,
                                m2.call[c].options),
                       i, from, c)
         IN IF m3.thrown THEN m3
            ELSE Emit(m3, "event", "call-init", c, from, "")

\* A decline handler that deletes the accept handler but forgets
\* 'ansHandler = null'.
onCallDeclineKeepsToken(m, c, from, reason) ==
    IF declineGuard(m, c) THEN m
    ELSE LET i  == m.call[c].inst
             m0 == deleteAnsHandler(m, c)
             m1 == [m0 EXCEPT !.call[c].declineHandler = FALSE,
                              !.call[c].sessStream = FALSE]
             m2 == freeLocalStreamIfUnused(Resolve(m1, c, "decline"), i)
             m3 == IF m2.call[c].isBroadcast
                   THEN Emit(m2, "send", "megaNotifyCallHandled", c,
                             getBareJidFromJid(m2.call[c].peer),
                             [by |-> from, accepted |-> "0"])
                   ELSE m2
         IN IF m2.thrown THEN m2
            ELSE Emit(m3, "event", "call-declined", c, from, reason)

\* The decline handler of startMediaCall (type megaCallDecline); reason is
\* the reason attribute of the stanza, "undefined" when it has none.
onCallDecline(m, c, from, reason) ==
    IF declineGuard(m, c) THEN m
    ELSE LET i  == m.call[c].inst
             m0 == deleteAnsHandler(m, c)
             m1 == [m0 EXCEPT !.call[c].ansHandler = FALSE,
                              !.call[c].declineHandler = FALSE,
                              !.call[c].sessStream = FALSE]
             m2 == freeLocalStreamIfUnused(Resolve(m1, c, "decline"), i)
             m3 == IF m2.call[c].isBroadcast
                   THEN Emit(m2, "send", "megaNotifyCallHandled", c,
                             getBareJidFromJid(m2.call[c].peer),
                             [by |-> from, accepted |-> "0"])
                   ELSE m2
         IN IF m2.thrown THEN m2
            ELSE Emit(m3, "event", "call-declined", c, from, reason)

\* The setTimeout callback of startMediaCall.
onAnswerTimeout(m, c) ==
    IF timeoutGuard(m, c) THEN m
    ELSE LET i  == m.call[c].inst
             m1 == [deleteAnsHandler(m, c) EXCEPT !.call[c].ansHandler = FALSE]
             m2 == [deleteDeclineHandler(m1, c) EXCEPT
                      !.call[c].declineHandler = FALSE,
                      !.call[c].sessStream = FALSE]
             m3 == freeLocalStreamIfUnused(Resolve(m2, c, "timeout"), i)
             m4 == Emit(m3, "send", "megaCallCancel", c,
                        getBareJidFromJid(m3.call[c].peer), "")
         IN IF m3.thrown THEN m3
            ELSE Emit(m4, "event", "call-answer-timeout", c,
                      m4.call[c].peer, "")

\* The deadline timer of call c expires and runs its callback.
fireTimer(m, c) ==
    onAnswerTimeout([m EXCEPT !.call[c].timer = "fired"], c)

\* cancel() of the object startMediaCall returns.
cancel(m, c) ==
    IF cancelGuard(m, c) THEN [m EXCEPT !.ret = "false"]
    ELSE LET i  == m.call[c].inst
             m1 == [deleteAnsHandler(m, c) EXCEPT !.call[c].ansHandler = FALSE]
             m2 == [deleteDeclineHandler(m1, c) EXCEPT
                      !.call[c].declineHandler = FALSE]
             m3 == freeLocalStreamIfUnused(Resolve(m2, c, "cancel"), i)
             m4 == Emit(m3, "send", "megaCallCancel", c,
                        getBareJidFromJid(m3.call[c].peer), "")
         IN IF m3.thrown THEN m3
            ELSE [m4 EXCEPT !.ret = "true"]

\* A success callback that sends the invitation first and registers the
\* two handlers afterwards.
startMediaCallReadySendsFirst(m, c) ==
    LET m1 == Emit([m EXCEPT !.call[c].sessStream = TRUE,
                             !.call[c].gum = "done"],
                   "send", "megaCall", c, m.call[c].peer, "")
        m2 == Emit([m1 EXCEPT !.call[c].ansHandler = TRUE,
                              !.call[c].ansReg = TRUE],
                   "addHandler", "megaCallAnswer", c, "", "")
        m3 == Emit([m2 EXCEPT !.call[c].declineHandler = TRUE,
                              !.call[c].declReg = TRUE],
                   "addHandler", "megaCallDecline", c, "", "")
    IN Emit([m3 EXCEPT !.call[c].timer = "armed"],
            "setTimeout", "callAnswerTimeout", c, "", "")

\* The success callback startMediaCall gives _myGetUserMedia: registers
\* the two handlers, sends the invitation, starts the deadline timer.
startMediaCallReady(m, c) ==
    LET m1 == Emit([m EXCEPT !.call[c].sessStream = TRUE,
                             !.call[c].gum = "done",
                             !.call[c].ansHandler = TRUE,
                             !.call[c].ansReg = TRUE],
                   "addHandler", "megaCallAnswer", c, "", "")
        m2 == Emit([m1 EXCEPT !.call[c].declineHandler = TRUE,
                              !.call[c].declReg = TRUE],
                   "addHandler", "megaCallDecline", c, "", "")
        m3 == Emit(m2, "send", "megaCall", c, m2.call[c].peer, "")
    IN Emit([m3 EXCEPT !.call[c].timer = "armed"],
            "setTimeout", "callAnswerTimeout", c, "", "")

\* A boolean as it is written into the record of a call's arguments.
BoolStr(b) == IF b THEN "true" ELSE "false"

\* The success callback the answer function gives _myGetUserMedia:
\* ansFunc(true, {options}); mediaOptions is obj.mediaOptions of the call
\* of the answer function that made the request.  The engine completes the
\* handshake when the request is still valid.
answerReady(m, c, mediaOptions) ==
    LET muted == mediaOptionsToMutedState(mediaOptions, m.tracks)
        m0 == Emit([m EXCEPT !.call[c].sessStream = TRUE,
                             !.call[c].gum = "done"],
                   "call", "ansFunc", c, "true", "")
        m1 == Emit(m0, "arg", "ansFunc.options.muted", c,
                   BoolStr(muted.audio), BoolStr(muted.video))
    IN IF m1.call[c].valid
       THEN registerSession([m1 EXCEPT !.call[c].valid = FALSE],
                            m1.call[c].inst, m1.call[c].peer, c)
       ELSE m1

\* The success callback of the closure that called _myGetUserMedia with
\* the media options options.
successCallback(m, c, options) ==
    IF m.call[c].kind = "out" THEN startMediaCallReady(m, c)
    ELSE answerReady(m, c, options)

\* A _myGetUserMedia that never takes the branch of the stored stream.
useSharedStreamNever(m, i) == FALSE

\* The branch of _myGetUserMedia taken when the shared stream exists: clone
\* it, take a reference, call back at once.
useSharedStream(m, i) == m.stream

\* The device requests of call slot c that have not called back keep the
\* slot in the state "pending", whatever a callback of the slot just did.
requestsLeft(m, c) ==
    IF Len(m.call[c].pend) > 0 THEN [m EXCEPT !.call[c].gum = "pending"]
    ELSE m

\* RtcSession.prototype._myGetUserMedia called for call slot c by a
\* closure whose media options are options.  pend holds the device-open
\* requests the slot has made that have not called back, in the order they
\* were made: each is the media options of the closure its callbacks
\* belong to.
myGetUserMedia(m, i, c, options) ==
    IF useSharedStream(m, i)
    THEN requestsLeft(successCallback(refLocalStream(m, i), c, options), c)
    ELSE Emit([m EXCEPT !.call[c].gum = "pending",
                        !.call[c].pend = Append(@, options)],
              "call", "getUserMedia", c, "", "")

\* RtcSession.prototype.startMediaCall(targetJid, options) on instance i,
\* its closure kept in call slot c.
startMediaCall(m, c, i, t, options) ==
    myGetUserMedia(
        [m EXCEPT !.call[c] = [NoCall EXCEPT !.kind = "out", !.inst = i,
                                 !.peer = t, !.options = options,
                                 !.isBroadcast = ~hasResource(t)]],
        i, c, options)

\* RtcSession.prototype._onMediaReady
onMediaReady(m, c) ==
    IF m.vid
    THEN Throw(m, "Local stream just obtained, but localVid was not null", c)
    ELSE Emit([m EXCEPT !.vid = TRUE],
              "event", "local-stream-obtained", c, "", "")

\* A sequence without its n-th element.
RemoveAt(seq, n) == SubSeq(seq, 1, n - 1) \o SubSeq(seq, n + 1, Len(seq))

\* The success callback _myGetUserMedia gives the n-th outstanding
\* device-open request of call slot c; the success callback it goes on to
\* is the one of the closure that made the request, with the media options
\* of that closure.
deviceOpened(m, i, c, n) ==
    LET m1 == [m EXCEPT !.stream = TRUE, !.captures = @ + 1,
                        !.refcount = Number(0),
                        !.drops = IF m.refcount = Number(1) THEN @ + 1 ELSE @,
                        !.call[c].pend = RemoveAt(@, n)]
        m2 == onMediaReady(refLocalStream(m1, i), c)
    IN requestsLeft(IF m2.thrown THEN [m2 EXCEPT !.call[c].gum = "threw"]
                    ELSE successCallback(m2, c, m.call[c].pend[n]), c)

\* The errors the capture device can fail with (error.name).
DeviceErrors == {"PermissionDeniedError", "NotFoundError"}

\* The fixed part of the text of the decline the answer function gives when
\* the device fails; the error name is appended to it.
ErrorTextPrefix ==
    "There was a problem accessing user's camera or microphone. Error: "

\* An error callback that reports the failure and goes on with the success
\* callback all the same.
deviceFailedProceeds(m, i, c, n, err) ==
    requestsLeft(
        successCallback(Emit([m EXCEPT !.call[c].pend = RemoveAt(@, n)],
                             "event", "local-media-fail", c, err, ""),
                        c, m.call[c].pend[n]), c)

\* The error callback _myGetUserMedia gives the n-th outstanding
\* device-open request of call slot c; err is the name of the device error
\* (msg).  For an incoming request the
\* errCallback of the answer function runs first: ansFunc(false, {reason:
\* 'error', text: "There was a problem ... Error: " + err}).
deviceFailed(m, i, c, n, err) ==
    LET m1 == [m EXCEPT !.call[c].gum = "failed",
                        !.call[c].pend = RemoveAt(@, n)]
        m2 == IF m1.call[c].kind = "in"
              THEN Emit(Emit([m1 EXCEPT !.call[c].valid = FALSE],
                             "call", "ansFunc", c, "false", "error"),
                        "arg", "ansFunc.text", c, ErrorTextPrefix, err)
              ELSE m1
    IN requestsLeft(Emit(m2, "event", "local-media-fail", c, err, ""), c)

\* jingle.terminateAll: every session of the instance, one after another,
\* in the order the session table enumerates them.
RECURSIVE terminateAll(_, _)
terminateAll(m, i) ==
    IF m.ord[i] = <<>> \/ m.thrown THEN m
    ELSE terminateAll(terminateSession(m, i, Head(m.ord[i])), i)

\* An answer function that forwards obj.reason as it is, without the
\* default.
answerNoDefault(m, c, accept, reason, mediaOptions, ansFuncRet) ==
    IF ~m.call[c].valid THEN [m EXCEPT !.ret = "false"]
    ELSE IF ~accept
    THEN [Emit([m EXCEPT !.call[c].valid = FALSE], "call", "ansFunc", c,
               "false", reason)
          EXCEPT !.ret = ansFuncRet]
    ELSE LET k == myGetUserMedia(m, m.call[c].inst, c, mediaOptions)
         IN IF k.thrown THEN k ELSE [k EXCEPT !.ret = "true"]

\* An answer function that does not ask reqStillValid().
answerUnchecked(m, c, accept, reason, mediaOptions, ansFuncRet) ==
    IF ~accept
    THEN [Emit([m EXCEPT !.call[c].valid = FALSE], "call", "ansFunc", c,
               "false", IF reason = "undefined" THEN "busy" ELSE reason)
          EXCEPT !.ret = ansFuncRet]
    ELSE LET k == myGetUserMedia(m, m.call[c].inst, c, mediaOptions)
         IN IF k.thrown THEN k ELSE [k EXCEPT !.ret = "true"]

\* What the engine's ansFunc can return to the answer function ("none" is
\* undefined).
AnsFuncReturns == {"none", "true", "false"}

\* The answer function onIncomingCallRequest hands to the observers of
\* call-incoming-request: answer(accept, obj); reason is obj.reason,
\* "undefined" when obj has none, mediaOptions is obj.mediaOptions.  A
\* decline returns what the engine's ansFunc returns, ansFuncRet; an
\* exception of the engine in the accept branch leaves the function without
\* a value.
answer(m, c, accept, reason, mediaOptions, ansFuncRet) ==
    IF ~m.call[c].valid THEN [m EXCEPT !.ret = "false"]
    ELSE IF ~accept
    THEN [Emit([m EXCEPT !.call[c].valid = FALSE], "call", "ansFunc", c,
               "false", IF reason = "undefined" THEN "busy" ELSE reason)
          EXCEPT !.ret = ansFuncRet]
    ELSE LET k == myGetUserMedia(m, m.call[c].inst, c, mediaOptions)
         IN IF k.thrown THEN k ELSE [k EXCEPT !.ret = "true"]

\* RtcSession.prototype.onConnectionEvent for CONNFAIL / DISCONNECTING.  It
\* runs with this == connection.jingle: terminateAll is the engine's, and
\* _freeLocalStreamIfUnused is no method of the engine.
onConnectionEvent(m, i) ==
    LET m1 == terminateAll(m, i)
    IN IF m1.thrown THEN m1
       ELSE Throw(m1, "this._freeLocalStreamIfUnused is not a function", 0)

\* The identity arguments of muteUnmute and hangup: "none" stands for an
\* omitted identity.
JidArgs == {"none", "b", "b/r1", "b/r2", "c", "c/r1"}

\* A _getSessionsForJid that compares the identities as given, without
\* reducing both to the bare identity.
getSessionsForJidExact(m, i, jid) ==
    IF jid = "none"
    THEN [null |-> m.ord[i] = <<>>, sessions |-> m.ord[i]]
    ELSE [null |-> FALSE,
          sessions |-> SelectSeq(m.ord[i], LAMBDA j : j = jid)]

\* RtcSession.prototype._getSessionsForJid: null is set when it returns
\* null, sessions are the peers of the sessions of the array it returns,
\* in the order of the array: the order the for-in loops find the keys of
\* jingle.sessions and jingle.jid2session.
getSessionsForJid(m, i, jid) ==
    IF jid = "none"
    THEN [null |-> m.ord[i] = <<>>, sessions |-> m.ord[i]]
    ELSE [null |-> FALSE,
          sessions |-> SelectSeq(m.ord[i],
                           LAMBDA j : getBareJidFromJid(j)
                                          = getBareJidFromJid(jid))]

\* The loop of muteUnmute: sessions[k].muteUnmute(state, what) for every
\* session of the array, from its first to its last.
RECURSIVE muteEach(_, _, _, _)
muteEach(m, S, state, what) ==
    IF S = <<>> THEN m
    ELSE muteEach(Emit(m, "call", "sess.muteUnmute", 0, Head(S),
                       [state |-> state, what |-> what]),
                  Tail(S), state, what)

\* RtcSession.prototype.muteUnmute(state, what, jid) on instance i.
muteUnmute(m, i, state, what, jid) ==
    LET r == getSessionsForJid(m, i, jid)
    IN IF r.null THEN [m EXCEPT !.ret = "false"]
       ELSE [muteEach(m, r.sessions, state, what) EXCEPT !.ret = "true"]

\* RtcSession.prototype.onConnectionEvent for CONNECTED.  It runs with
\* this == connection.jingle and registers _onPresenceUnavailable, bound to
\* this.rtcSession, for presence stanzas of type unavailable, then asks for
\* the relay credentials.
onConnectionEventConnected(m, i) ==
    Emit(Emit([m EXCEPT !.pres[i] = @ + 1, !.conn[i] = TRUE],
              "addHandler", "presence-unavailable", 0, "", ""),
         "call", "getStunAndTurnCredentials", 0, "", "")

\* The sessions jingle.terminateByJid(jid) selects.
selectedByJid(m, j, jid) ==
    CASE m.match = "full" -> j = jid
      [] m.match = "bare" -> getBareJidFromJid(j) = getBareJidFromJid(jid)

\* jingle.terminateByJid(jid): the engine ends every session of the
\* instance it selects, one after another, in the order the session table
\* enumerates them.
RECURSIVE terminateByJid(_, _, _)
terminateByJid(m, i, jid) ==
    LET S == SelectSeq(m.ord[i], LAMBDA j : selectedByJid(m, j, jid))
    IN IF S = <<>> \/ m.thrown THEN m
       ELSE terminateByJid(terminateSession(m, i, Head(S)), i, jid)

\* RtcSession.prototype._onPresenceUnavailable(pres); from is the from
\* attribute of the stanza.
onPresenceUnavailable(m, i, from) == terminateByJid(m, i, from)

\* What the transport does with a handler of instance i that ran and
\* returned undefined, as _onPresenceUnavailable does.
handlerReturned(m, i) ==
    CASE m.fate = "kept" -> m
      [] m.fate = "removed" -> [m EXCEPT !.pres[i] = @ - 1]

\* The transport delivers a presence stanza of type unavailable from from
\* to the n handlers instance i has registered for it, one after another.
RECURSIVE deliverPresence(_, _, _, _)
deliverPresence(m, i, from, n) ==
    IF n = 0 \/ m.thrown THEN m
    ELSE deliverPresence(handlerReturned(onPresenceUnavailable(m, i, from),
                                         i),
                         i, from, n - 1)

\* RtcSession.prototype.hangup(jid)
hangup(m, i, jid) ==
    IF jid = "none" THEN terminateAll(m, i) ELSE terminateByJid(m, i, jid)

\* RtcSession.prototype.destroy: hangup() then _unrefLocalStream().
destroy(m, i) ==
    LET m1 == terminateAll(m, i)
    IN IF m1.thrown THEN m1 ELSE unrefLocalStream(m1, i)

\* The characters of the texts: the five characters XML escapes and the
\* characters entity names are written with.
Chars == {"&", "<", ">", "'", "\"", "l", "t", ";"}

\* The texts of at most n characters.
RECURSIVE TextsUpTo(_)
TextsUpTo(n) ==
    IF n = 0 THEN {<<>>}
    ELSE LET shorter == TextsUpTo(n - 1)
         IN shorter \cup {Append(t, ch) : t \in shorter, ch \in Chars}

\* No message body is on its way.
NoBody == [plain |-> <<>>, text |-> <<>>, stage |-> "none"]

\* String.prototype.replace(/pat/g, rep): every occurrence of pat, found
\* from left to right without overlap, is replaced by rep.
RECURSIVE replaceAll(_, _, _)
replaceAll(text, pat, rep) ==
    IF Len(text) < Len(pat) THEN text
    ELSE IF SubSeq(text, 1, Len(pat)) = pat
    THEN rep \o replaceAll(SubSeq(text, Len(pat) + 1, Len(text)), pat, rep)
    ELSE <<Head(text)>> \o replaceAll(Tail(text), pat, rep)

\* The five entities and the characters they stand for.
EntAmp  == <<"&", "a", "m", "p", ";">>
EntLt   == <<"&", "l", "t", ";">>
EntGt   == <<"&", "g", "t", ";">>
EntApos == <<"&", "a", "p", "o", "s", ";">>
EntQuot == <<"&", "q", "u", "o", "t", ";">>

\* Standard XML escaping of the five characters, as the sender of a
\* message applies it to the text of a body: & first, then < > ' ".
xmlEscape(text) ==
    replaceAll(replaceAll(replaceAll(replaceAll(replaceAll(text,
        <<"&">>, EntAmp), <<"<">>, EntLt), <<">">>, EntGt),
        <<"'">>, EntApos), <<"\"">>, EntQuot)

\* RtcSession.xmlUnescape: five replace passes, &amp; first.
xmlUnescape(text) ==
    replaceAll(replaceAll(replaceAll(replaceAll(replaceAll(text,
        EntAmp, <<"&">>), EntLt, <<"<">>), EntGt, <<">">>),
        EntApos, <<"'">>), EntQuot, <<"\"">>)

Init ==
    /\ gLocalStream = FALSE
    /\ gLocalStreamRefcount = NoNumber
    /\ gLocalVid = FALSE
    /\ captures = 0
    /\ usedLocalStream = [i \in Insts |-> FALSE]
    /\ sessions = [i \in Insts |-> {}]
    /\ sessionOrder = [i \in Insts |-> <<>>]
    /\ acquired = [i \in Insts |-> FALSE]
    /\ call = [c \in Calls |-> NoCall]
    /\ deviceTracks = StreamTracks
    /\ presenceHandlers = [i \in Insts |-> 0]
    /\ connected = [i \in Insts |-> FALSE]
    /\ bodyText = NoBody

\* Writes the state a handler ended in back to the variables.
Commit(m) ==
    \E k \in {m} :
        /\ gLocalStream' = k.stream
        /\ gLocalStreamRefcount' = k.refcount
        /\ gLocalVid' = k.vid
        /\ captures' = k.captures
        /\ usedLocalStream' = k.used
        /\ sessions' = k.sess
        /\ sessionOrder' = k.ord
        /\ acquired' = k.acq
        /\ call' = k.call
        /\ deviceTracks' = k.tracks
        /\ presenceHandlers' = k.pres
        /\ connected' = k.conn
        /\ bodyText' = bodyText

\* Call slots are taken in order.
FreeSlot(c) ==
    /\ call[c].kind = "none"
    /\ \A d \in Calls : d < c => call[d].kind # "none"

\* startMediaCall(targetJid, {audio: true, video: true}) on instance i.
StartMediaCall(c, i, t) ==
    /\ FreeSlot(c)
    /\ Commit(startMediaCall(Mem, c, i, t, DefaultOptions))

\* startMediaCall(targetJid, options) on instance i.
StartMediaCallWith(c, i, t, options) ==
    /\ FreeSlot(c)
    /\ Commit(startMediaCall(Mem, c, i, t, options))

\* The number of device-open requests of the call slots 1..n that have not
\* called back.
RECURSIVE OutstandingUpTo(_)
OutstandingUpTo(n) ==
    IF n = 0 THEN 0 ELSE Len(call[n].pend) + OutstandingUpTo(n - 1)

\* The device-open requests that have not called back.
Outstanding == OutstandingUpTo(MaxCalls)

\* An observer accepts incoming request c with the media options options,
\* as often as it likes and also while device requests of earlier accepts
\* are outstanding; the accept makes a device request only when the shared
\* stream is not open, and then at most MaxRequests are outstanding.
AnswerWith(c, options) ==
    /\ call[c].kind = "in"
    /\ gLocalStream \/ Outstanding < MaxRequests
    /\ \E d \in DuplicateRepliesFor(call[c].inst, call[c].peer) :
          Commit(answer(OnDuplicate(Mem, d), c, TRUE, "undefined", options,
                        "none"))

\* The outstanding device requests of call slot c, by their position.
Requests(c) == 1..Len(call[c].pend)

\* The capture device opens for a request of call slot c: the callbacks of
\* the outstanding requests run in any order.
DeviceOpened(c) ==
    \E n \in Requests(c), d \in DuplicateRepliesFor(call[c].inst, call[c].peer) :
        Commit(deviceOpened(OnDuplicate(Mem, d), call[c].inst, c, n))

\* The capture device is denied or missing for a request of call slot c.
DeviceFailed(c) ==
    \E n \in Requests(c), err \in DeviceErrors :
        Commit(deviceFailed(Mem, call[c].inst, c, n, err))

\* An accept message from resource from reaches the registered handler.
RecvAccept(c, from) ==
    /\ call[c].ansReg
    /\ from \in Responders(call[c].peer)
    /\ \E d \in DuplicateRepliesFor(call[c].inst, from) :
          Commit(onCallAnswer(OnDuplicate(Mem, d), c, from))

\* A decline message from resource from reaches the registered handler.
RecvDecline(c, from, reason) ==
    /\ call[c].declReg
    /\ from \in Responders(call[c].peer)
    /\ Commit(onCallDecline(Mem, c, from, reason))

\* The deadline timer of call c fires.
TimerFires(c) ==
    /\ call[c].timer = "armed"
    /\ Commit(fireTimer(Mem, c))

\* The caller invokes cancel() on the handle startMediaCall returned.
Cancel(c) ==
    /\ call[c].kind = "out"
    /\ Commit(cancel(Mem, c))

\* The engine ends one session (the peer hangs up, a protocol error).
TerminateSession(i, j) ==
    /\ j \in sessions[i]
    /\ Commit(terminateSession(Mem, i, j))

\* onIncomingCallRequest: the engine reports a call request from from.
IncomingCallRequest(c, i, from) ==
    /\ FreeSlot(c)
    /\ Commit(Emit([Mem EXCEPT !.call[c] =
                        [NoCall EXCEPT !.kind = "in", !.inst = i,
                                       !.peer = from, !.valid = TRUE]],
                   "event", "call-incoming-request", c, from, ""))

\* An observer invokes the answer function of incoming request c, as
\* often as it likes and also while device requests of earlier accepts are
\* outstanding (an accept that makes a device request finds fewer than
\* MaxRequests outstanding); ansFuncRet is what the engine's ansFunc
\* returns.
Answer(c, accept, reason, ansFuncRet) ==
    /\ call[c].kind = "in"
    /\ accept => (gLocalStream \/ Outstanding < MaxRequests)
    /\ \E d \in DuplicateRepliesFor(call[c].inst, call[c].peer) :
          Commit(answer(OnDuplicate(Mem, d), c, accept, reason,
                        DefaultOptions, ansFuncRet))

\* The inviter cancels incoming request c, or the request times out:
\* reqStillValid() turns false and call-canceled is triggered.
InvalidateRequest(c) ==
    /\ call[c].kind = "in"
    /\ call[c].valid
    /\ Commit(Emit([Mem EXCEPT !.call[c].valid = FALSE],
                   "event", "call-canceled", c, call[c].peer, ""))

\* The transport reports CONNFAIL or DISCONNECTING.
ConnectionEvent(i) ==
    /\ Commit(onConnectionEvent(Mem, i))

\* The transport reports CONNECTED to instance i.
Connected(i) ==
    /\ presenceHandlers[i] < MaxConnects
    /\ Commit(onConnectionEventConnected(Mem, i))

\* Peer resource from goes offline: its presence stanza of type unavailable
\* reaches the handlers instance i has registered.
PresenceUnavailable(i, from) ==
    /\ \E t \in JidMatches, f \in HandlerFates :
          Commit(deliverPresence(Fate(ByJid(Mem, t), f), i, from,
                                 presenceHandlers[i]))

\* hangup(jid) is called on instance i; "none" stands for hangup().  The
\* engine ends every session the call selects within this one handler.
Hangup(i, jid) ==
    /\ \E t \in JidMatchesFor(i, jid) : Commit(hangup(ByJid(Mem, t), i, jid))

\* destroy() is called on instance i.
Destroy(i) ==
    /\ Commit(destroy(Mem, i))

\* The whole program on one instance.
Next ==
    \/ \E c \in Calls, i \in Driven, t \in Targets : StartMediaCall(c, i, t)
    \/ \E c \in Calls : DeviceOpened(c)
    \/ \E c \in Calls : DeviceFailed(c)
    \/ \E c \in Calls, from \in FullJids : RecvAccept(c, from)
    \/ \E c \in Calls, from \in FullJids, r \in {"undefined", "busy"} :
          RecvDecline(c, from, r)
    \/ \E c \in Calls : TimerFires(c)
    \/ \E c \in Calls : Cancel(c)
    \/ \E i \in Driven, j \in FullJids : TerminateSession(i, j)
    \/ \E c \in Calls, i \in Driven, from \in Callers :
          IncomingCallRequest(c, i, from)
    \/ \E c \in Calls : Answer(c, TRUE, "undefined", "none")
    \/ \E c \in Calls, r \in {"undefined", "busy"}, v \in AnsFuncReturns :
          Answer(c, FALSE, r, v)
    \/ \E c \in Calls : InvalidateRequest(c)
    \/ \E i \in Driven : ConnectionEvent(i)
    \/ \E i \in Driven, jid \in JidArgs : Hangup(i, jid)
    \/ \E i \in Driven : Destroy(i)

Spec == Init /\ [][Next]_vars

\* The call-request protocol on its own: outgoing invitations, their
\* answers, timers and cancellations, and the sessions they start.
NextInvitation ==
    \/ \E c \in Calls, i \in Driven, t \in Targets : StartMediaCall(c, i, t)
    \/ \E c \in Calls : DeviceOpened(c)
    \/ \E c \in Calls : DeviceFailed(c)
    \/ \E c \in Calls, from \in FullJids : RecvAccept(c, from)
    \/ \E c \in Calls, from \in FullJids, r \in {"undefined", "busy"} :
          RecvDecline(c, from, r)
    \/ \E c \in Calls : TimerFires(c)
    \/ \E c \in Calls : Cancel(c)
    \/ \E i \in Driven, j \in FullJids : TerminateSession(i, j)

SpecInvitation == Init /\ [][NextInvitation]_vars

\* setTimeout callbacks run once their delay elapsed: a deadline timer that
\* is armed eventually fires.
FairSpec ==
    Init /\ [][NextInvitation]_vars /\ \A c \in Calls : WF_vars(TimerFires(c))

\* The stream registry shared by two RtcSession instances of one page:
\* the operations that acquire the local stream (startMediaCall and the
\* answer function of an incoming request, through _myGetUserMedia and the
\* device callbacks) and those that release it (decline, timeout, cancel,
\* session end, hangup, destroy).  Instance 1 makes the calls, to the full
\* identity b/r1, and instance 2 receives the requests, from c/r1.
NextRegistry ==
    \/ \E c \in Calls : StartMediaCall(c, 1, "b/r1")
    \/ \E c \in Calls : DeviceOpened(c)
    \/ \E c \in Calls : DeviceFailed(c)
    \/ \E c \in Calls : RecvAccept(c, "b/r1")
    \/ \E c \in Calls : RecvDecline(c, "b/r1", "busy")
    \/ \E c \in Calls : TimerFires(c)
    \/ \E c \in Calls : Cancel(c)
    \/ \E c \in Calls, from \in Callers : IncomingCallRequest(c, 2, from)
    \/ \E c \in Calls, a \in BOOLEAN : Answer(c, a, "undefined", "none")
    \/ \E i \in Insts, j \in FullJids : TerminateSession(i, j)
    \/ \E i \in Insts, jid \in {"none", "b/r1"} : Hangup(i, jid)
    \/ \E i \in Insts : Destroy(i)

SpecRegistry == Init /\ [][NextRegistry]_vars

\* Outgoing invitations made with every combination of media options, and
\* their answers.
NextMedia ==
    \/ \E c \in Calls, i \in Driven, t \in Targets, o \in MediaOptions :
          StartMediaCallWith(c, i, t, o)
    \/ \E c \in Calls : DeviceOpened(c)
    \/ \E c \in Calls, from \in FullJids : RecvAccept(c, from)
    \/ \E c \in Calls, from \in FullJids, r \in {"undefined", "busy"} :
          RecvDecline(c, from, r)
    \/ \E i \in Driven, j \in FullJids : TerminateSession(i, j)

SpecMedia == Init /\ [][NextMedia]_vars

\* The state after construction on a machine whose capture device delivers
\* any of the streams of DeviceStreams.
InitMuted ==
    /\ gLocalStream = FALSE
    /\ gLocalStreamRefcount = NoNumber
    /\ gLocalVid = FALSE
    /\ captures = 0
    /\ usedLocalStream = [i \in Insts |-> FALSE]
    /\ sessions = [i \in Insts |-> {}]
    /\ sessionOrder = [i \in Insts |-> <<>>]
    /\ acquired = [i \in Insts |-> FALSE]
    /\ call = [c \in Calls |-> NoCall]
    /\ deviceTracks \in DeviceStreams
    /\ presenceHandlers = [i \in Insts |-> 0]
    /\ connected = [i \in Insts |-> FALSE]
    /\ bodyText = NoBody

\* Outgoing invitations and incoming requests, made and accepted with every
\* value of the media options, up to the point where the two callers of
\* mediaOptionsToMutedState run: the accept handler of an invitation that
\* awaits its answer and the success callback of the answer function.
NextMuted ==
    \/ \E c \in Calls, i \in Driven, o \in AllMediaOptions :
          StartMediaCallWith(c, i, "b/r1", o)
    \/ \E c \in Calls, i \in Driven, from \in Callers :
          IncomingCallRequest(c, i, from)
    \/ \E c \in Calls, o \in AllMediaOptions : AnswerWith(c, o)
    \/ \E c \in Calls : DeviceOpened(c)

SpecMuted == InitMuted /\ [][NextMuted]_vars

\* The session table of one instance: sessions of outgoing invitations
\* that are accepted and of incoming requests an observer accepts, with
\* resources of b and with c, and their ends, one at a time.
NextSessions ==
    \/ \E c \in Calls, i \in Driven, t \in Targets : StartMediaCall(c, i, t)
    \/ \E c \in Calls : DeviceOpened(c)
    \/ \E c \in Calls, from \in FullJids : RecvAccept(c, from)
    \/ \E c \in Calls, i \in Driven, from \in Callers :
          IncomingCallRequest(c, i, from)
    \/ \E c \in Calls : Answer(c, TRUE, "undefined", "none")
    \/ \E i \in Driven, j \in FullJids : TerminateSession(i, j)

SpecSessions == Init /\ [][NextSessions]_vars

\* Sessions of outgoing invitations that are accepted and of incoming
\* requests an observer accepts, on a connection that connects and whose
\* peers go offline.
NextPresence ==
    \/ \E c \in Calls, i \in Driven, t \in Targets : StartMediaCall(c, i, t)
    \/ \E c \in Calls : DeviceOpened(c)
    \/ \E c \in Calls, from \in FullJids : RecvAccept(c, from)
    \/ \E c \in Calls, i \in Driven, from \in Callers :
          IncomingCallRequest(c, i, from)
    \/ \E c \in Calls : Answer(c, TRUE, "undefined", "none")
    \/ \E i \in Driven : Connected(i)
    \/ \E i \in Driven, from \in FullJids : PresenceUnavailable(i, from)

SpecPresence == Init /\ [][NextPresence]_vars

\* The answer function of incoming requests with observers that invoke it
\* at any time and any number of times, also while device requests of
\* earlier accepts are outstanding, next to an outgoing call that opens
\* the shared stream.
NextAnswer ==
    \/ \E c \in Calls, i \in Driven, from \in Callers :
          IncomingCallRequest(c, i, from)
    \/ \E c \in Calls : Answer(c, TRUE, "undefined", "none")
    \/ \E c \in Calls, r \in {"undefined", "busy"}, v \in AnsFuncReturns :
          Answer(c, FALSE, r, v)
    \/ \E c \in Calls : InvalidateRequest(c)
    \/ \E c \in Calls : DeviceOpened(c)
    \/ \E c \in Calls : DeviceFailed(c)
    \/ \E c \in Calls, i \in Driven : StartMediaCall(c, i, "b/r1")
    \/ \E i \in Driven, j \in FullJids : TerminateSession(i, j)
    \/ \E i \in Driven, jid \in JidArgs : Hangup(i, jid)

SpecAnswer == Init /\ [][NextAnswer]_vars

\* The releases of one instance: outgoing calls and everything that gives
\* the reference of the instance back (decline, timeout, cancel, the end of
\* a session, hangup, destroy).
NextRelease ==
    \/ \E c \in Calls, i \in Driven, t \in Targets : StartMediaCall(c, i, t)
    \/ \E c \in Calls : DeviceOpened(c)
    \/ \E c \in Calls, from \in FullJids : RecvAccept(c, from)
    \/ \E c \in Calls, from \in FullJids : RecvDecline(c, from, "busy")
    \/ \E c \in Calls : TimerFires(c)
    \/ \E c \in Calls : Cancel(c)
    \/ \E i \in Driven, j \in FullJids : TerminateSession(i, j)
    \/ \E i \in Driven, jid \in {"none", "b"} : Hangup(i, jid)
    \/ \E i \in Driven : Destroy(i)

SpecRelease == Init /\ [][NextRelease]_vars

(***************************************************************************)
(* Vocabulary of the properties.                                           *)
(***************************************************************************)

\* The references gLocalStreamRefcount counts: the number it holds, and
\* none while it holds no number.
Refs(v) == IF v = NoNumber THEN 0 ELSE v[1]

\* The program state a handler leaves behind.
StateOf(m) ==
    <<m.stream, m.refcount, m.vid, m.captures, m.used, m.sess, m.ord, m.call,
      m.pres, m.conn>>

\* The handler that ended in m, started in m0, changed no state, sent no
\* message, registered or deleted nothing, emitted no event, threw nothing.
NoEffect(m, m0) ==
    /\ StateOf(m) = StateOf(m0)
    /\ m.out = <<>>
    /\ ~m.thrown

\* The handler that ended in m did something observable.
Effective(m) == m.out # <<>> \/ m.ret = "true"

Outgoing(c) == call[c].kind = "out"

\* The invitation of call c is awaiting its answer.
AwaitingAnswer(c) == Outgoing(c) /\ call[c].ansHandler

\* The results, in the current state, of the four triggers of call c.
TriggerResults(c) ==
    UNION {{onCallAnswer(OnDuplicate(Mem, d), c, from) :
               d \in DuplicateRepliesFor(call[c].inst, from)} :
              from \in Responders(call[c].peer)}
    \cup {onCallDecline(Mem, c, from, r) :
             from \in Responders(call[c].peer), r \in {"undefined", "busy"}}
    \cup {fireTimer(Mem, c), cancel(Mem, c)}

\* Mem once the timer of c is consumed: what a timer callback that does
\* nothing leaves behind.
TimerConsumed(c) == [Mem EXCEPT !.call[c].timer = "fired"]

(***************************************************************************)
(* C1: for one outgoing invitation at most one of the four outcomes        *)
(* (accept, decline, timeout, cancel) takes effect, at most once: a        *)
(* trigger has an effect only on an invitation no trigger resolved yet,    *)
(* and then resolves it; on a resolved invitation every accept message,    *)
(* decline message, timer expiry and cancel() changes no state, sends no   *)
(* message and emits no event (cancel() returns false).                    *)
(***************************************************************************)
C1_SingleResolution ==
    \A c \in Calls : Outgoing(c) =>
        /\ call[c].nres <= 1
        /\ \A k \in TriggerResults(c) :
              Effective(k) => call[c].nres = 0 /\ k.call[c].nres = 1
        /\ call[c].nres >= 1 =>
              /\ \A from \in Responders(call[c].peer) :
                    /\ \A d \in DuplicateReplies :
                          NoEffect(onCallAnswer(OnDuplicate(Mem, d), c, from),
                                   Mem)
                    /\ \A r \in {"undefined", "busy"} :
                          NoEffect(onCallDecline(Mem, c, from, r), Mem)
              /\ NoEffect(fireTimer(Mem, c), TimerConsumed(c))
              /\ NoEffect(cancel(Mem, c), Mem)
              /\ cancel(Mem, c).ret = "false"

\* C1 witness: an invitation was accepted and its timer expired afterwards.
C1_Witness ==
    \E c \in Calls :
        Outgoing(c) /\ call[c].outcome = "accept" /\ call[c].timer = "fired"

\* The media of call c is being acquired: the device-open request of
\* _myGetUserMedia has not called back yet.
Acquiring(c) == call[c].gum = "pending"

\* No outgoing invitation is pending, no incoming answer is in progress and
\* no session is registered.
Idle ==
    /\ \A c \in Calls : ~Acquiring(c) /\ ~AwaitingAnswer(c)
    /\ \A i \in Insts : sessions[i] = {}

\* Every call made so far is an outgoing invitation whose media
\* acquisition succeeded.
OnlyAcquiredInvitations ==
    \A c \in Calls : call[c].kind = "none" \/ (Outgoing(c) /\ call[c].gum = "done")

(***************************************************************************)
(* C2: every acquisition of the local stream is paired with exactly one    *)
(* release: whenever no invitation is pending, no answer is in progress    *)
(* and no session is registered, the reference count is 0 and the shared   *)
(* stream is closed, also after invitations and sessions overlapped on one *)
(* instance.  Stated for the histories the claim names: outgoing           *)
(* invitations whose media acquisition succeeded.                          *)
(***************************************************************************)
C2_NoLeakedReference ==
    (Idle /\ OnlyAcquiredInvitations) =>
        Refs(gLocalStreamRefcount) = 0 /\ ~gLocalStream

\* The instance of call c has its _usedLocalStream flag set.
HoldsReference(c) == usedLocalStream[call[c].inst]

(***************************************************************************)
(* C3: cancel() returns true exactly when the invitation is awaiting its   *)
(* answer, and then it deregisters both handlers, sends the cancel message *)
(* and releases the media (the reference this invitation took is given     *)
(* back); it returns false on an invitation resolved by accept, decline or *)
(* timeout, and then does nothing and leaves an accepted call running.     *)
(* The release is stated for an instance that still holds its reference    *)
(* flag, so that no destroy() took the reference before.                   *)
(***************************************************************************)
C3_CancelContract ==
    \A c \in Calls : Outgoing(c) =>
        LET k == cancel(Mem, c)
        IN /\ (k.ret = "true") <=> AwaitingAnswer(c)
           /\ AwaitingAnswer(c) =>
                 /\ ~k.call[c].ansReg /\ ~k.call[c].declReg
                 /\ \E n \in 1..Len(k.out) :
                       k.out[n] = <<"send", "megaCallCancel", c,
                                    getBareJidFromJid(call[c].peer), "">>
                 /\ HoldsReference(c) =>
                       Refs(k.refcount) = Refs(gLocalStreamRefcount) - 1
           /\ call[c].nres >= 1 =>
                 /\ k.ret = "false"
                 /\ NoEffect(k, Mem)

(***************************************************************************)
(* C4: cancel() after the deadline fired returns false and does not        *)
(* release a second time: the timeout decrements the reference count once  *)
(* for its invitation, and the later cancel() decrements nothing, emits no *)
(* teardown notification and sends no second cancel message.  The         *)
(* decrement is stated for an instance that still holds its reference      *)
(* flag, so that no destroy() took the reference before.                   *)
(***************************************************************************)
C4_CancelAfterTimeout ==
    \A c \in Calls : Outgoing(c) =>
        /\ (AwaitingAnswer(c) /\ HoldsReference(c)) =>
              Refs(fireTimer(Mem, c).refcount) = Refs(gLocalStreamRefcount) - 1
        /\ call[c].outcome = "timeout" =>
              /\ cancel(Mem, c).ret = "false"
              /\ NoEffect(cancel(Mem, c), Mem)

(***************************************************************************)
(* C5: after an invitation to a bare identity was accepted by a resource,  *)
(* the decline handler is deregistered, and a decline from any resource    *)
(* is not processed: it fires no call-declined event, releases no media    *)
(* and sends no 'call handled' notification.                               *)
(***************************************************************************)
C5_DeclineAfterAcceptIgnored ==
    \A c \in Calls :
        (Outgoing(c) /\ call[c].isBroadcast /\ call[c].outcome = "accept") =>
            /\ ~call[c].declReg
            /\ \A from \in Responders(call[c].peer), r \in {"undefined", "busy"} :
                  NoEffect(onCallDecline(Mem, c, from, r), Mem)

\* C5 witness: a broadcast invitation was accepted by resource r1 and the
\* session with r1 runs, while r2 may still decline.
C5_Witness ==
    \E c \in Calls :
        /\ Outgoing(c) /\ call[c].isBroadcast /\ call[c].outcome = "accept"
        /\ "b/r1" \in sessions[call[c].inst]

\* The invitation of call c was sent and its deadline timer started.
InvitationSent(c) == Outgoing(c) /\ call[c].timer # "none"

(***************************************************************************)
(* C6: every invitation that reached AwaitingAnswer is eventually          *)
(* resolved by accept, decline, cancel or timeout: given that an armed     *)
(* deadline timer eventually fires, no invitation stays pending forever,   *)
(* even if no peer answers and the caller never cancels, and an invitation *)
(* that was sent and is pending no longer has been resolved.               *)
(***************************************************************************)
C6_EventuallyResolved ==
    /\ \A c \in Calls : []<>(~AwaitingAnswer(c))
    /\ [](\A c \in Calls :
             (InvitationSent(c) /\ ~AwaitingAnswer(c)) =>
                 call[c].outcome \in {"accept", "decline", "cancel", "timeout"})

\* C6 witness: an invitation was resolved by its deadline.
C6_Witness ==
    \E c \in Calls : Outgoing(c) /\ call[c].outcome = "timeout"

(***************************************************************************)
(* C7: once an invitation is resolved, the other three triggers are        *)
(* unregistered: the other message handlers and, unless the timeout        *)
(* resolved it, the deadline timer.                                        *)
(***************************************************************************)
C7_OtherTriggersUnregistered ==
    \A c \in Calls : (Outgoing(c) /\ call[c].nres >= 1) =>
        /\ call[c].outcome # "accept" => ~call[c].ansReg
        /\ call[c].outcome # "decline" => ~call[c].declReg
        /\ call[c].outcome # "timeout" => call[c].timer # "armed"

(***************************************************************************)
(* C8: in every reachable state the shared stream is open                  *)
(* (RtcSession.gLocalStream is set) if and only if the reference count is  *)
(* greater than 0, for all sequences of acquisitions (_myGetUserMedia) and *)
(* releases (_unrefLocalStream, _freeLocalStreamIfUnused) of two           *)
(* instances.                                                              *)
(***************************************************************************)
C8_OpenIffReferenced ==
    gLocalStream <=> (Refs(gLocalStreamRefcount) > 0)

\* C8 witness: both instances hold a reference to the open stream: one
\* opened the device, the other cloned the shared stream.
C8_Witness ==
    /\ gLocalStream /\ Refs(gLocalStreamRefcount) = 2
    /\ usedLocalStream[1] /\ usedLocalStream[2]

\* The number of local-player-remove events the handler that ended in m
\* triggered.
Teardowns(m) ==
    Cardinality({n \in 1..Len(m.out) :
                    m.out[n][1] = "event" /\ m.out[n][2] = "local-player-remove"})

\* The results, in the current state, of the handlers that reach
\* _myGetUserMedia, a device callback, _freeLocalStreamIfUnused or
\* _unrefLocalStream: startMediaCall, the device callbacks, the decline
\* handler, the timer callback, cancel(), the answer function, the end of a
\* session, hangup (_onPresenceUnavailable does what hangup(from) does),
\* onConnectionEvent for CONNFAIL / DISCONNECTING, and destroy.
RegistryResults ==
    {startMediaCall(Mem, c, i, t, DefaultOptions) :
        c \in {d \in Calls : FreeSlot(d)}, i \in Insts, t \in Targets}
    \cup UNION {{deviceOpened(OnDuplicate(Mem, d), call[c].inst, c, n) :
                     n \in Requests(c),
                     d \in DuplicateRepliesFor(call[c].inst, call[c].peer)} :
                  c \in Calls}
    \cup UNION {{deviceFailed(Mem, call[c].inst, c, n, err) :
                     n \in Requests(c), err \in DeviceErrors} : c \in Calls}
    \cup {onCallDecline(Mem, c, from, "busy") :
             c \in {d \in Calls : call[d].declReg}, from \in FullJids}
    \cup {fireTimer(Mem, c) : c \in {d \in Calls : call[d].timer = "armed"}}
    \cup {cancel(Mem, c) : c \in {d \in Calls : Outgoing(d)}}
    \cup UNION {{answer(OnDuplicate(Mem, r), c, TRUE, "undefined",
                         DefaultOptions, "none") :
                     r \in DuplicateRepliesFor(call[c].inst, call[c].peer)} :
                  c \in {d \in Calls : call[d].kind = "in"}}
    \cup UNION {{terminateSession(Mem, i, j) : j \in sessions[i]} : i \in Insts}
    \cup UNION {{hangup(ByJid(Mem, t), i, jid) : t \in JidMatchesFor(i, jid)} :
                  i \in Insts, jid \in JidArgs}
    \cup {onConnectionEvent(Mem, i) : i \in Insts}
    \cup {destroy(Mem, i) : i \in Insts}

(***************************************************************************)
(* C9: the teardown notification (local-player-remove) fires exactly once  *)
(* per transition of the reference count from 1 to 0: every handler fires  *)
(* as many notifications as it makes such transitions, so that none fires  *)
(* without a transition, none fires twice for one, and no transition is    *)
(* silent.                                                                 *)
(***************************************************************************)
C9_TeardownOncePerRelease ==
    \A k \in RegistryResults : Teardowns(k) = k.drops

(***************************************************************************)
(* C10: at most one underlying capture is open at any time, also when a    *)
(* second acquisition is requested while the first device-open request has *)
(* not called back: the device is not opened a second time, and the error  *)
(* 'Local stream just obtained, but localVid was not null' is never        *)
(* raised.                                                                 *)
(***************************************************************************)
C10_AtMostOneCapture ==
    /\ captures <= 1
    /\ \A c \in Calls : call[c].gum # "threw"

(***************************************************************************)
(* C11: the reference count of the shared stream is never negative in any  *)
(* reachable state, for any interleaving of acquisitions and releases,     *)
(* also with two RtcSession instances sharing the global stream and with   *)
(* device-open callbacks that reset the count.                             *)
(***************************************************************************)
C11_CountNeverNegative ==
    Refs(gLocalStreamRefcount) >= 0

\* Instance i is the only user of the shared stream, and only through its
\* sessions: no other instance holds a reference, no invitation of i is
\* acquiring media or awaiting its answer, no incoming answer is acquiring.
OnlySessionsUse(i) ==
    /\ \A o \in Insts \ {i} : ~usedLocalStream[o]
    /\ \A c \in Calls : ~Acquiring(c) /\ ~AwaitingAnswer(c)

(***************************************************************************)
(* C12: when the last registered session of an instance terminates (its    *)
(* session table goes from non-empty to empty), the shared local stream is *)
(* released and torn down: the instance gives its reference back and,      *)
(* when nothing else uses the stream, the stream is closed, the count is 0 *)
(* and the teardown notification fired once, for any number of sessions    *)
(* that were active on the instance.  Stated for an instance that still    *)
(* holds its reference flag, so that no destroy() took the reference       *)
(* before.                                                                 *)
(***************************************************************************)
C12_LastSessionReleases ==
    \A i \in Insts : \A j \in sessions[i] :
        (sessions[i] = {j} /\ usedLocalStream[i]) =>
            LET k == terminateSession(Mem, i, j)
            IN /\ ~k.used[i]
               /\ OnlySessionsUse(i) =>
                     ~k.stream /\ Refs(k.refcount) = 0 /\ Teardowns(k) = 1

(***************************************************************************)
(* C13: terminating a session while at least one other session is still    *)
(* registered on the instance never tears down the shared stream: no       *)
(* teardown notification is emitted, the shared stream stays as it is      *)
(* (open when it was open), and neither the reference count nor the        *)
(* reference flag of the instance changes.                                 *)
(***************************************************************************)
C13_OtherSessionKeepsStream ==
    \A i \in Insts : \A j \in sessions[i] :
        Cardinality(sessions[i]) >= 2 =>
            LET k == terminateSession(Mem, i, j)
            IN /\ Teardowns(k) = 0
               /\ k.stream = gLocalStream
               /\ Refs(k.refcount) = Refs(gLocalStreamRefcount)
               /\ k.used = usedLocalStream

\* C13 witness: two sessions are registered on an instance that holds a
\* reference to the open shared stream.
C13_Witness ==
    \E i \in Insts :
        /\ Cardinality(sessions[i]) >= 2
        /\ gLocalStream /\ usedLocalStream[i]

(***************************************************************************)
(* C14: when the transport reports CONNFAIL or DISCONNECTING while two     *)
(* sessions are active on the instance, both sessions are terminated and   *)
(* the local stream is force-released regardless of its reference count:   *)
(* afterwards the session table is empty, the reference count is 0, the    *)
(* shared stream is closed, the teardown happened exactly once, and the    *)
(* handler raised no exception.                                            *)
(***************************************************************************)
C14_ConnFailForcesRelease ==
    \A i \in Insts :
        (Cardinality(sessions[i]) = 2 /\ gLocalStream) =>
            LET k == onConnectionEvent(Mem, i)
            IN /\ k.sess[i] = {}
               /\ Refs(k.refcount) = 0
               /\ ~k.stream
               /\ Teardowns(k) = 1
               /\ ~k.thrown

\* Call slot c as the handler that ended in m left it: no handler and no
\* timer registered, not awaiting an answer, not resolved.
NothingRegistered(m, c) ==
    /\ ~m.call[c].ansHandler /\ ~m.call[c].declineHandler
    /\ ~m.call[c].ansReg /\ ~m.call[c].declReg
    /\ m.call[c].timer = "none"
    /\ m.call[c].nres = 0

(***************************************************************************)
(* C15: if local-media acquisition fails in startMediaCall, the call never *)
(* reaches AwaitingAnswer: the error callback fires local-media-fail and   *)
(* nothing else (no invitation message, no handler, no timer), leaves the  *)
(* reference count, the stream and the sessions as they are, and from then *)
(* on no handler or timer is registered for the call and cancel() on the   *)
(* returned handle returns false without any effect.                       *)
(***************************************************************************)
C15_MediaFailureStopsCall ==
    \A c \in Calls : Outgoing(c) =>
        /\ Acquiring(c) => \A err \in DeviceErrors, n \in Requests(c) :
              LET k == deviceFailed(Mem, call[c].inst, c, n, err)
              IN /\ k.out = << <<"event", "local-media-fail", c, err, "">> >>
                 /\ ~k.thrown
                 /\ Refs(k.refcount) = Refs(gLocalStreamRefcount)
                 /\ k.stream = gLocalStream
                 /\ k.used = usedLocalStream
                 /\ k.sess = sessions
                 /\ k.call[c].gum = "failed"
                 /\ NothingRegistered(k, c)
        /\ call[c].gum = "failed" =>
              /\ NothingRegistered(Mem, c)
              /\ ~AwaitingAnswer(c)
              /\ cancel(Mem, c).ret = "false"
              /\ NoEffect(cancel(Mem, c), Mem)

\* C15 witness: the device was refused to an outgoing call.
C15_Witness ==
    \E c \in Calls : Outgoing(c) /\ call[c].gum = "failed"

\* The call-declined events the handler that ended in m triggered for
\* call c, as <<peer, reason>>.
DeclinedEvents(m, c) ==
    {<<m.out[n][4], m.out[n][5]>> :
        n \in {x \in 1..Len(m.out) :
                  /\ m.out[x][1] = "event"
                  /\ m.out[x][2] = "call-declined"
                  /\ m.out[x][3] = c}}

(***************************************************************************)
(* C16: when a decline resolves an outgoing invitation, the call-declined  *)
(* event carries the reason the peer supplied, and the reason "busy" when  *)
(* the decline message of the peer supplied none.                          *)
(***************************************************************************)
C16_DeclineReasonDefaultsToBusy ==
    \A c \in Calls : AwaitingAnswer(c) =>
        \A from \in Responders(call[c].peer) :
            /\ DeclinedEvents(onCallDecline(Mem, c, from, "busy"), c)
                  = {<<from, "busy">>}
            /\ DeclinedEvents(onCallDecline(Mem, c, from, "undefined"), c)
                  = {<<from, "busy">>}

\* The number of events called name the handlers that ended in m triggered
\* for call c.
EventCount(m, name, c) ==
    Cardinality({n \in 1..Len(m.out) :
                    /\ m.out[n][1] = "event"
                    /\ m.out[n][2] = name
                    /\ m.out[n][3] = c})

\* Call c is the only call made so far, and its instance holds its
\* reference to the stream.
OnlyCall(c) ==
    /\ \A d \in Calls \ {c} : call[d].kind = "none"
    /\ \A i \in Insts : sessions[i] = {}
    /\ HoldsReference(c)

\* Resource b/r1 declines the invitation of call c, b/r2 stays silent, and
\* the deadline timer expires afterwards.
DeclineThenDeadline(c) ==
    fireTimer(onCallDecline(Mem, c, "b/r1", "busy"), c)

(***************************************************************************)
(* C17: A invites the bare identity b, which has two resources; b/r1       *)
(* declines and b/r2 never responds.  The decline of b/r1 resolves the     *)
(* whole invitation: exactly one call-declined event is emitted, with      *)
(* b/r1 as peer, no call-answer-timeout event is emitted, not even when    *)
(* the timer expires later, and the local stream is released at most once  *)
(* (exactly once, down to a closed stream, when this is the only call).    *)
(***************************************************************************)
C17_DeclineResolvesBroadcast ==
    \A c \in Calls : (AwaitingAnswer(c) /\ call[c].peer = "b") =>
        LET k1 == onCallDecline(Mem, c, "b/r1", "busy")
            k2 == DeclineThenDeadline(c)
        IN /\ EventCount(k2, "call-declined", c) = 1
           /\ DeclinedEvents(k2, c) = {<<"b/r1", "busy">>}
           /\ EventCount(k2, "call-answer-timeout", c) = 0
           /\ k2.call[c].outcome = "decline" /\ k2.call[c].nres = 1
           /\ Teardowns(k2) <= 1
           /\ Refs(k2.refcount) = Refs(k1.refcount)
           /\ Refs(k1.refcount) \in {Refs(gLocalStreamRefcount), Refs(gLocalStreamRefcount) - 1}
           /\ OnlyCall(c) =>
                 /\ Refs(k2.refcount) = 0 /\ ~k2.stream
                 /\ Teardowns(k2) = 1

\* C17 witness: the only call, to the bare identity b, was declined, its
\* timer expired afterwards, and the stream is closed.
C17_Witness ==
    \E c \in Calls :
        /\ \A d \in Calls \ {c} : call[d].kind = "none"
        /\ call[c].peer = "b" /\ call[c].outcome = "decline"
        /\ call[c].timer = "fired"
        /\ ~gLocalStream /\ Refs(gLocalStreamRefcount) = 0

\* The calls of jingle.initiate the handlers that ended in m made for call
\* c, as <<peer, [stream, muted]>>.
InitiateCalls(m, c) ==
    {<<m.out[n][4], m.out[n][5]>> :
        n \in {x \in 1..Len(m.out) :
                  /\ m.out[x][1] = "call"
                  /\ m.out[x][2] = "jingle.initiate"
                  /\ m.out[x][3] = c}}

\* How often the handlers that ended in m called jingle.initiate for c.
InitiateCount(m, c) ==
    Cardinality({x \in 1..Len(m.out) :
                    /\ m.out[x][1] = "call"
                    /\ m.out[x][2] = "jingle.initiate"
                    /\ m.out[x][3] = c})

(***************************************************************************)
(* C18: when an accept is received first, jingle.initiate is invoked       *)
(* exactly once for the invitation, also when further accepts arrive, with *)
(* the full identity of the resource that sent the accept, with the stream *)
(* clone acquired for this invitation and with the MutedState derived from *)
(* the media options of the caller (a track is muted when it was not       *)
(* requested); the call-init event carries the same full identity, and the *)
(* local stream reference is not released on this path.                    *)
(***************************************************************************)
C18_InitiateOnceWithResponder ==
    \A d \in DuplicateReplies :
    \A c \in Calls : AwaitingAnswer(c) =>
        \A from \in Responders(call[c].peer), later \in Responders(call[c].peer) :
            LET k  == onCallAnswer(OnDuplicate(Mem, d), c, from)
                k2 == onCallAnswer(k, c, later)
            IN /\ InitiateCount(k, c) = 1
               /\ InitiateCount(k2, c) = 1
               /\ InitiateCalls(k, c) =
                     {<<from, [stream |-> c,
                               muted |-> [audio |-> ~call[c].options.audio,
                                          video |-> ~call[c].options.video]]>>}
               /\ ~k.thrown =>
                     /\ EventCount(k, "call-init", c) = 1
                     /\ k.out[Len(k.out)] = <<"event", "call-init", c, from, "">>
                     /\ from \in k.sess[call[c].inst]
               /\ Refs(k.refcount) = Refs(gLocalStreamRefcount)
               /\ k.stream = gLocalStream
               /\ k.used = usedLocalStream
               /\ k.call[c].sessStream
               /\ Teardowns(k) = 0

\* C18 witness: an invitation to the bare identity b made without video
\* was accepted by resource b/r2, and the session with b/r2 runs.
C18_Witness ==
    \E c \in Calls :
        /\ call[c].peer = "b" /\ ~call[c].options.video
        /\ call[c].outcome = "accept"
        /\ "b/r2" \in sessions[call[c].inst]

\* The 'call handled' notifications the handlers that ended in m sent for
\* call c, as <<to, [by, accepted]>>.
HandledNotices(m, c) ==
    {<<m.out[n][4], m.out[n][5]>> :
        n \in {x \in 1..Len(m.out) :
                  /\ m.out[x][1] = "send"
                  /\ m.out[x][2] = "megaNotifyCallHandled"
                  /\ m.out[x][3] = c}}

\* How many 'call handled' notifications they sent for call c.
HandledCount(m, c) ==
    Cardinality({x \in 1..Len(m.out) :
                    /\ m.out[x][1] = "send"
                    /\ m.out[x][2] = "megaNotifyCallHandled"
                    /\ m.out[x][3] = c})

\* The target of call c is a bare identity.
BareTarget(c) == call[c].peer \in {"b", "c"}

(***************************************************************************)
(* C19: when an invitation is resolved by accept or by decline, a 'call    *)
(* handled' notification with the full identity of the responder and the   *)
(* flag accepted=1 (accept) or accepted=0 (decline) is sent to the bare    *)
(* identity of the target if and only if the target was a bare identity;   *)
(* at most one is sent per invitation, also when more answers arrive, and  *)
(* none is sent on timeout or cancel.                                      *)
(***************************************************************************)
C19_CallHandledNotice ==
    \A d \in DuplicateReplies :
    \A c \in Calls : AwaitingAnswer(c) =>
        /\ \A from \in Responders(call[c].peer), later \in Responders(call[c].peer) :
              LET ka  == onCallAnswer(OnDuplicate(Mem, d), c, from)
                  kd  == onCallDecline(Mem, c, from, "busy")
                  ka2 == onCallAnswer(onCallDecline(ka, c, later, "busy"), c, later)
                  kd2 == onCallDecline(onCallAnswer(kd, c, later), c, later, "busy")
              IN /\ HandledCount(ka, c) = IF BareTarget(c) THEN 1 ELSE 0
                 /\ HandledCount(kd, c) = IF BareTarget(c) THEN 1 ELSE 0
                 /\ BareTarget(c) =>
                       /\ HandledNotices(ka, c) =
                             {<<getBareJidFromJid(call[c].peer),
                                [by |-> from, accepted |-> "1"]>>}
                       /\ HandledNotices(kd, c) =
                             {<<getBareJidFromJid(call[c].peer),
                                [by |-> from, accepted |-> "0"]>>}
                 /\ HandledCount(ka2, c) = HandledCount(ka, c)
                 /\ HandledCount(kd2, c) = HandledCount(kd, c)
                 /\ HandledCount(fireTimer(ka, c), c) = HandledCount(ka, c)
                 /\ HandledCount(cancel(kd, c), c) = HandledCount(kd, c)
        /\ HandledCount(fireTimer(Mem, c), c) = 0
        /\ HandledCount(cancel(Mem, c), c) = 0

\* C19 witness: an invitation to a bare identity was declined and one to a
\* full identity was accepted.
C19_Witness ==
    \E c \in Calls, d \in Calls :
        /\ Outgoing(c) /\ BareTarget(c) /\ call[c].outcome = "decline"
        /\ Outgoing(d) /\ ~BareTarget(d) /\ call[d].outcome = "accept"

\* The messages of the given type the handlers that ended in m sent for
\* call c, as the sequence of their addressees.
SentTo(m, type, c) ==
    LET idx == {x \in 1..Len(m.out) :
                  /\ m.out[x][1] = "send"
                  /\ m.out[x][2] = type
                  /\ m.out[x][3] = c}
    IN [to \in {m.out[x][4] : x \in idx} |->
           Cardinality({x \in idx : m.out[x][4] = to})]

\* The deadline of call c elapses, then an accept and a decline arrive.
DeadlineThenAnswers(c, from) ==
    onCallDecline(onCallAnswer(fireTimer(Mem, c), c, from), c, from, "busy")

(***************************************************************************)
(* C20: when the deadline elapses first, both handlers are deregistered,   *)
(* local media is released (the reference of the invitation is given       *)
(* back), exactly one cancel message is sent, to the bare identity of the  *)
(* target also when the target was a full identity, and exactly one        *)
(* call-answer-timeout event is emitted, carrying the original target; no  *)
(* call-init or call-declined event is emitted for that invitation         *)
(* afterwards.  The release is stated for an instance that still holds     *)
(* its reference flag.                                                     *)
(***************************************************************************)
C20_DeadlineFirst ==
    \A c \in Calls : AwaitingAnswer(c) =>
        LET k == fireTimer(Mem, c)
        IN /\ ~k.call[c].ansReg /\ ~k.call[c].declReg
           /\ ~k.call[c].ansHandler /\ ~k.call[c].declineHandler
           /\ HoldsReference(c) => Refs(k.refcount) = Refs(gLocalStreamRefcount) - 1
           /\ ~k.call[c].sessStream
           /\ SentTo(k, "megaCallCancel", c) =
                 [to \in {getBareJidFromJid(call[c].peer)} |-> 1]
           /\ EventCount(k, "call-answer-timeout", c) = 1
           /\ k.out[Len(k.out)] =
                 <<"event", "call-answer-timeout", c, call[c].peer, "">>
           /\ k.call[c].outcome = "timeout"
           /\ \A from \in Responders(call[c].peer) :
                 LET k2 == DeadlineThenAnswers(c, from)
                 IN /\ EventCount(k2, "call-init", c) = 0
                    /\ EventCount(k2, "call-declined", c) = 0
                    /\ EventCount(k2, "call-answer-timeout", c) = 1
                    /\ StateOf(k2) = StateOf(k)

\* The sessions of instance i that belong to the identity jid: every
\* session when no identity is given, else the sessions of every resource
\* of the bare identity of jid.
Matching(i, jid) ==
    IF jid = "none" THEN sessions[i]
    ELSE {j \in sessions[i] :
            \/ jid \in {"b", "b/r1", "b/r2"} /\ j \in {"b/r1", "b/r2"}
            \/ jid \in {"c", "c/r1"} /\ j = "c/r1"}

\* The peers of the sessions the handler that ended in m applied a mute
\* operation to.
MutedPeers(m) ==
    {m.out[n][4] : n \in {x \in 1..Len(m.out) :
                             /\ m.out[x][1] = "call"
                             /\ m.out[x][2] = "sess.muteUnmute"}}

\* The mute operations it applied, one entry per call.
MuteCalls(m) ==
    {x \in 1..Len(m.out) :
        m.out[x][1] = "call" /\ m.out[x][2] = "sess.muteUnmute"}

(***************************************************************************)
(* C21: muteUnmute returns false if no matching session exists, both when  *)
(* no identity is given and no session is registered, and when an identity *)
(* is given and no registered session belongs to its bare identity; in     *)
(* both cases no mute operation is applied to any session.                 *)
(***************************************************************************)
C21_MuteWithoutSessionIsFalse ==
    \A i \in Insts, jid \in JidArgs :
        Matching(i, jid) = {} =>
            LET k == muteUnmute(Mem, i, TRUE,
                                [audio |-> TRUE, video |-> FALSE], jid)
            IN k.ret = "false" /\ MuteCalls(k) = {}

(***************************************************************************)
(* C22: muteUnmute applies the mute operation to exactly the selected      *)
(* sessions, once each and with the state and channels it was given:       *)
(* every registered session when no identity is given, and every session   *)
(* whose peer has the same bare identity when an identity (full or bare)   *)
(* is given; no session of another peer is touched, and nothing else of    *)
(* the state changes.                                                      *)
(***************************************************************************)
C22_MuteFansOutToSelected ==
    \A i \in Insts, jid \in JidArgs, state \in BOOLEAN,
       what \in {[audio |-> TRUE, video |-> FALSE],
                 [audio |-> TRUE, video |-> TRUE]} :
        \A k \in {muteUnmute(Mem, i, state, what, jid)} :
           /\ MutedPeers(k) = Matching(i, jid)
           /\ Cardinality(MuteCalls(k)) = Cardinality(Matching(i, jid))
           /\ \A x \in MuteCalls(k) :
                 k.out[x][5] = [state |-> state, what |-> what]
           /\ StateOf(k) = StateOf(Mem)
           /\ ~k.thrown

\* One instance holds a session with a resource of b and one with c.
C22_Witness ==
    /\ sessions[1] \cap {"b/r1", "b/r2"} # {}
    /\ "c/r1" \in sessions[1]
    /\ MutedPeers(muteUnmute(Mem, 1, TRUE, [audio |-> TRUE, video |-> FALSE],
                              "b")) = sessions[1] \ {"c/r1"}

\* Call slot c holds an incoming request.
Incoming(c) == call[c].kind = "in"

(***************************************************************************)
(* C23: the answer function of call-incoming-request returns false when it *)
(* is invoked after the request expired or was cancelled, which it decides *)
(* by asking the validity predicate at the moment of the call; it then     *)
(* acquires no local media, gives no reply and leaves the reference count  *)
(* and everything else as it is, whether it is asked to accept or decline. *)
(***************************************************************************)
C23_AnswerAfterExpiryIsFalse ==
    \A d \in DuplicateReplies :
    \A c \in Calls : (Incoming(c) /\ ~call[c].valid) =>
        \A accept \in BOOLEAN, reason \in {"undefined", "busy"},
           o \in MediaOptions, v \in AnsFuncReturns :
            LET k == answer(OnDuplicate(Mem, d), c, accept, reason, o, v)
            IN k.ret = "false" /\ NoEffect(k, Mem)

\* A request that was cancelled before it was answered, while another call
\* holds the shared stream.
C23_Witness ==
    \E d \in DuplicateReplies :
    \E c \in Calls :
        /\ Incoming(c) /\ ~call[c].valid /\ call[c].gum = "none"
        /\ gLocalStream /\ Refs(gLocalStreamRefcount) > 0
        /\ answer(OnDuplicate(Mem, d), c, TRUE, "undefined", DefaultOptions, "none").ret = "false"

\* The entries named name that the handler that ended in m recorded for
\* call slot c.
EntriesOf(m, name, c) ==
    {x \in 1..Len(m.out) : m.out[x][2] = name /\ m.out[x][3] = c}

\* The handler that ended in m replied to request c exactly once, with a
\* decline of reason 'error' whose text ends in the device error err, and
\* fired local-media-fail with that error.
DeclinedWithError(m, c, err) ==
    /\ Cardinality(EntriesOf(m, "ansFunc", c)) = 1
    /\ \A x \in EntriesOf(m, "ansFunc", c) :
          m.out[x][4] = "false" /\ m.out[x][5] = "error"
    /\ Cardinality(EntriesOf(m, "ansFunc.text", c)) = 1
    /\ \A x \in EntriesOf(m, "ansFunc.text", c) :
          m.out[x][4] = ErrorTextPrefix /\ m.out[x][5] = err
    /\ Cardinality(EntriesOf(m, "local-media-fail", c)) = 1
    /\ \A x \in EntriesOf(m, "local-media-fail", c) :
          m.out[x][1] = "event" /\ m.out[x][4] = err

\* The handler that ended in m, started in m0, took and gave back no
\* reference and left the shared stream and the sessions alone.
MediaUntouched(m, m0) ==
    /\ m.refcount = m0.refcount
    /\ m.stream = m0.stream
    /\ m.vid = m0.vid
    /\ m.captures = m0.captures
    /\ m.used = m0.used
    /\ m.sess = m0.sess

(***************************************************************************)
(* C24: when answer(true, ...) is invoked on a still-valid incoming        *)
(* request and the device fails to open, the request is answered as if     *)
(* declined: exactly one decline reply with reason 'error' and a text that *)
(* contains the device error, no accept reply, one local-media-fail event, *)
(* and an unchanged reference count.  Checked for the failure that follows *)
(* the answer at once and for the failure of every pending acquisition of  *)
(* an incoming request.                                                    *)
(***************************************************************************)
C24_MediaFailureDeclinesWithError ==
    \A d \in DuplicateReplies :
    \A c \in Calls, err \in DeviceErrors : Incoming(c) =>
        /\ (call[c].valid /\ ~gLocalStream /\ ~Acquiring(c)) =>
              LET k1 == answer(OnDuplicate(Mem, d), c, TRUE, "undefined", DefaultOptions, "none")
                  k == deviceFailed(k1, call[c].inst, c, 1, err)
              IN /\ k1.ret = "true"
                 /\ k1.call[c].gum = "pending"
                 /\ DeclinedWithError(k, c, err)
                 /\ MediaUntouched(k, Mem)
                 /\ ~k.thrown
        /\ Acquiring(c) => \A n \in Requests(c) :
              LET k == deviceFailed(Mem, call[c].inst, c, n, err)
              IN /\ DeclinedWithError(k, c, err)
                 /\ MediaUntouched(k, Mem)
                 /\ ~k.thrown

\* The device failed for an accepted incoming request.
C24_Witness ==
    \E c \in Calls :
        /\ Incoming(c) /\ call[c].gum = "failed"
        /\ ~call[c].valid /\ ~call[c].sessStream
        /\ call[c].inst \notin {i \in Insts : call[c].peer \in sessions[i]}

\* The MutedState the specification asks for: a channel is muted when it
\* was not requested and the stream has a track of it.
ExpectedMuted(options, present) ==
    [audio |-> IF options.audio THEN FALSE ELSE present.audio >= 1,
     video |-> IF options.video THEN FALSE ELSE present.video >= 1]

\* The MutedState arguments the handler that ended in m passed to ansFunc
\* for request c.
AnswerMuted(m, c) ==
    {<<m.out[x][4], m.out[x][5]>> : x \in EntriesOf(m, "ansFunc.options.muted", c)}

(***************************************************************************)
(* C25: the MutedState derived from media options and an acquired stream   *)
(* is, for every combination of options and track presence, audioMuted =   *)
(* (audio not requested and the stream has an audio track), videoMuted =   *)
(* (video not requested and the stream has a video track).  Options        *)
(* {audio: false, video: true} give {audioMuted: true, videoMuted: false}  *)
(* on a stream with both tracks and on an audio-only stream, and           *)
(* requesting audio when there is no microphone does not mute.  The same   *)
(* value reaches jingle.initiate of an accepted outgoing invitation and    *)
(* ansFunc of an accepted incoming request.                                *)
(***************************************************************************)
C25_MutedStateFromOptionsAndTracks ==
    \A d \in DuplicateReplies :
    /\ \A o \in AllMediaOptions,
          t \in {deviceTracks, [audio |-> 0, video |-> 0],
                 [audio |-> 2, video |-> deviceTracks.video]} :
          mediaOptionsToMutedState(o, t) = ExpectedMuted(o, t)
    /\ deviceTracks.audio >= 1 =>
          mediaOptionsToMutedState([audio |-> FALSE, video |-> TRUE],
                                   deviceTracks)
              = [audio |-> TRUE, video |-> FALSE]
    /\ deviceTracks.audio = 0 =>
          \A o \in AllMediaOptions :
              ~mediaOptionsToMutedState(o, deviceTracks).audio
    /\ \A c \in Calls :
          /\ AwaitingAnswer(c) =>
                \A x \in InitiateCalls(onCallAnswer(OnDuplicate(Mem, d), c, "b/r1"), c) :
                    x[2].muted = ExpectedMuted(call[c].options, deviceTracks)
          /\ (Incoming(c) /\ Acquiring(c)) => \A n \in Requests(c) :
                LET e == ExpectedMuted(call[c].pend[n], deviceTracks)
                    k == deviceOpened(OnDuplicate(Mem, d), call[c].inst, c, n)
                IN ~k.thrown =>
                      AnswerMuted(k, c)
                          = {<<BoolStr(e.audio), BoolStr(e.video)>>}

\* On a machine with a microphone only: an outgoing invitation made
\* without video awaits its answer, and the accept handler tells the engine
\* to mute nothing; an incoming request is accepted with video only, and
\* the engine is told to mute audio and not video.
C25_Witness ==
    \E d \in DuplicateReplies :
    /\ deviceTracks = [audio |-> 1, video |-> 0]
    /\ \E c \in Calls :
          /\ Incoming(c) /\ call[c].valid /\ gLocalStream
          /\ AnswerMuted(answer(OnDuplicate(Mem, d), c, TRUE, "undefined",
                                 [audio |-> FALSE, video |-> TRUE], "none"), c)
                = {<<"true", "false">>}
    /\ \E c \in Calls :
          /\ AwaitingAnswer(c) /\ ~call[c].options.video
          /\ \A x \in InitiateCalls(onCallAnswer(OnDuplicate(Mem, d), c, "b/r1"), c) :
                x[2].muted = [audio |-> FALSE, video |-> FALSE]

\* The handler that ended in m, started in the current state, acquired the
\* local stream for call slot c of instance i from the stored shared
\* stream: the call got a clone at once, the count went up by one, the
\* device was not asked and local-stream-obtained was not triggered.
ClonedFromShared(m, i, c) ==
    /\ m.call[c].sessStream
    /\ m.call[c].gum = "done"
    /\ Refs(m.refcount) = Refs(gLocalStreamRefcount) + 1
    /\ m.used[i]
    /\ m.stream /\ m.vid = gLocalVid
    /\ m.captures = captures
    /\ \A x \in 1..Len(m.out) :
          m.out[x][2] \notin {"getUserMedia", "local-stream-obtained"}

(***************************************************************************)
(* C26: once an acquisition has completed and until the shared stream is   *)
(* torn down, every further acquisition (by startMediaCall or by the       *)
(* answer function of an incoming request, on any instance) hands out a    *)
(* clone of the stored shared stream and increments the reference count by *)
(* one, without opening the capture device again and without emitting     *)
(* local-stream-obtained again.                                            *)
(***************************************************************************)
C26_FurtherAcquisitionsClone ==
    \A d \in DuplicateReplies :
    gLocalStream =>
        /\ \A c \in Calls, i \in Insts, t \in Targets : FreeSlot(c) =>
              ClonedFromShared(startMediaCall(Mem, c, i, t, DefaultOptions),
                               i, c)
        /\ \A c \in Calls :
              (Incoming(c) /\ call[c].valid /\ ~Acquiring(c)) =>
                  ClonedFromShared(
                      answer(OnDuplicate(Mem, d), c, TRUE, "undefined", DefaultOptions, "none"),
                      call[c].inst, c)

\* Two calls hold clones of one capture.
C26_Witness ==
    /\ gLocalStream /\ captures = 1 /\ Refs(gLocalStreamRefcount) = 2
    /\ \E c, d \in Calls :
          /\ c # d
          /\ call[c].sessStream /\ call[d].sessStream
          /\ call[c].gum = "done" /\ call[d].gum = "done"

\* The state a handler left as the next handler finds it.
Settled(m) ==
    [m EXCEPT !.out = <<>>, !.ret = "none", !.thrown = FALSE, !.drops = 0]

\* The handler that ended in m, started in m0, changed neither the count
\* nor the shared stream, the player or a flag, notified no teardown and
\* raised no error.
NoRelease(m, m0) ==
    /\ m.refcount = m0.refcount
    /\ m.stream = m0.stream
    /\ m.vid = m0.vid
    /\ m.captures = m0.captures
    /\ m.used = m0.used
    /\ Teardowns(m) = 0
    /\ ~m.thrown

\* After a handler that ended in k with the reference of instance i given
\* back, every releasing handler of the instance releases nothing more.
SecondReleaseIsNoOp(k, i) ==
    \A s \in {Settled(k)} :
        ~s.used[i] =>
           /\ NoEffect(unrefLocalStream(s, i), s)
           /\ NoEffect(freeLocalStreamIfUnused(s, i), s)
           /\ \A d \in {destroy(s, i)} : NoRelease(d, s)
           /\ \A j \in FullJids \ s.sess[i] :
                 \A ls \in BOOLEAN :
                    \A t \in {onCallTerminated(s, i, j, ls)} :
                        NoRelease(t, s)
           /\ \A c \in Calls :
                 (s.call[c].inst = i /\ s.call[c].timer = "armed") =>
                     \A t \in {fireTimer(s, c)} : NoRelease(t, s)

(***************************************************************************)
(* C27: release is idempotent.  A release clears the flag of the instance  *)
(* before anything else, and releasing again on the same instance without  *)
(* an acquisition in between (destroy() followed by a session-terminated   *)
(* callback, a timeout followed by a termination callback, destroy()       *)
(* twice) has the effect of releasing once: the second release does not    *)
(* change the reference count, emits no teardown notification and raises   *)
(* no error.                                                               *)
(***************************************************************************)
C27_ReleaseIdempotent ==
    \A i \in Insts :
        /\ ~unrefLocalStream(Mem, i).used[i]
        /\ SecondReleaseIsNoOp(unrefLocalStream(Mem, i), i)
        /\ SecondReleaseIsNoOp(destroy(Mem, i), i)
        /\ \A j \in sessions[i] :
              SecondReleaseIsNoOp(terminateSession(Mem, i, j), i)
        /\ \A c \in Calls :
              (call[c].inst = i /\ call[c].timer = "armed") =>
                  /\ SecondReleaseIsNoOp(fireTimer(Mem, c), i)
                  /\ SecondReleaseIsNoOp(cancel(Mem, c), i)

\* An instance that acquired the stream gave its reference back and the
\* stream is closed: any further release is a second one.
C27_Witness ==
    \E c \in Calls :
        /\ call[c].gum = "done" /\ call[c].sessStream
        /\ ~usedLocalStream[call[c].inst]
        /\ ~gLocalStream /\ Refs(gLocalStreamRefcount) = 0
        /\ unrefLocalStream(Mem, call[c].inst).out = <<>>

\* The positions of the entries named name in what the handler that ended
\* in m did.
Positions(m, name) == {x \in 1..Len(m.out) : m.out[x][2] = name}

(***************************************************************************)
(* C28: when the reference count reaches zero, the teardown notification   *)
(* (local-player-remove) is delivered synchronously while the shared       *)
(* resource is still valid: when the observers are notified the shared     *)
(* stream and the local player are still set and not yet stopped, and they *)
(* are stopped and cleared only after the notification returned, within    *)
(* the same handler.                                                       *)
(***************************************************************************)
C28_TeardownNotifiedBeforeClearing ==
    \A k \in RegistryResults :
        \A x \in Positions(k, "local-player-remove") :
            /\ k.out[x][4] = "gLocalVid"
            /\ k.out[x][5] = "gLocalStream"
            /\ \A y \in Positions(k, "gLocalVid.pause")
                         \cup Positions(k, "gLocalStream.stop") : x < y
            /\ Positions(k, "gLocalVid.pause") # {}
            /\ Positions(k, "gLocalStream.stop") # {}
            /\ gLocalStream /\ gLocalVid
            /\ ~k.stream /\ ~k.vid
            /\ Refs(k.refcount) <= 0

\* A call acquired the shared stream, and the stream was torn down since:
\* the notification was delivered, then player and stream were cleared.
C28_Witness ==
    /\ ~gLocalStream /\ ~gLocalVid /\ captures = 0
    /\ Refs(gLocalStreamRefcount) = 0
    /\ \E c \in Calls : call[c].sessStream /\ call[c].outcome # "none"

\* The handler that ended in m was ended by the rejection of a second
\* session for call slot c, and the session table is as it was.
RejectedAsDuplicate(m, c) ==
    /\ m.thrown
    /\ m.out[Len(m.out)] = <<"throw", "DuplicateSessionError", c, "", "">>
    /\ m.sess = sessions
    /\ EventCount(m, "call-init", c) = 0

EndedPeers(m) ==
    {m.out[x][4] : x \in {y \in 1..Len(m.out) :
                             m.out[y][1] = "event" /\ m.out[y][2] = "call-ended"}}

DeclineReasons == {"undefined", "busy", "rejected"}

(***************************************************************************)
(* C31: answer(false, {reason, text}) on a still-valid incoming request    *)
(* forwards exactly one decline, with reason 'busy' when none was given    *)
(* and the given reason otherwise, and never touches local media: no       *)
(* acquisition is started, the reference count, the shared stream and the  *)
(* flags are unchanged and no local-media event is emitted.                *)
(***************************************************************************)
C31_DeclineForwardedOnce ==
    \A d \in DuplicateReplies :
    \A c \in Calls : (Incoming(c) /\ call[c].valid) =>
        \A reason \in DeclineReasons, v \in AnsFuncReturns :
            \A k \in {answer(OnDuplicate(Mem, d), c, FALSE, reason, DefaultOptions, v)} :
                /\ k.out = << <<"call", "ansFunc", c, "false",
                                IF reason = "undefined" THEN "busy"
                                ELSE reason>> >>
                /\ MediaUntouched(k, Mem)
                /\ k.call[c].gum = call[c].gum
                /\ k.call[c].sessStream = call[c].sessStream
                /\ ~k.thrown

\* A valid incoming request that can be declined while another call holds
\* the shared stream.
C31_Witness ==
    \E d \in DuplicateReplies :
    \E c \in Calls :
        /\ Incoming(c) /\ call[c].valid /\ call[c].gum = "none"
        /\ gLocalStream /\ Refs(gLocalStreamRefcount) > 0
        /\ answer(OnDuplicate(Mem, d), c, FALSE, "undefined", DefaultOptions, "none").out
              = << <<"call", "ansFunc", c, "false", "busy">> >>

\* Instance i acquired the local stream: its _refLocalStream has run.
HasAcquired(i) == acquired[i]

(***************************************************************************)
(* C32: with several RtcSession instances sharing the global local stream  *)
(* there is no cross-instance leakage: when two instances have each        *)
(* acquired the stream, the stream stays open and counted as long as one   *)
(* of them holds its reference (it is torn down only after both released), *)
(* a release by an instance that holds no reference changes nothing, and   *)
(* after both have released, with no acquisition pending, the reference    *)
(* count is 0 and the stream is closed.                                    *)
(***************************************************************************)
C32_NoCrossInstanceLeak ==
    (\A i \in Insts : HasAcquired(i)) =>
        /\ \A i \in Insts :
              usedLocalStream[i] => (gLocalStream /\ Refs(gLocalStreamRefcount) >= 1)
        /\ \A i \in Insts :
              ~usedLocalStream[i] => NoEffect(unrefLocalStream(Mem, i), Mem)
        /\ ((\A i \in Insts : ~usedLocalStream[i])
               /\ (\A c \in Calls : ~Acquiring(c)))
              => (Refs(gLocalStreamRefcount) = 0 /\ ~gLocalStream)

(***************************************************************************)
(* C33: for each terminated session onCallTerminated stops that session's  *)
(* local stream, emits remote-player-remove, then emits call-ended exactly *)
(* once, and only afterwards attempts the release of the shared stream: a  *)
(* teardown notification (local-player-remove) caused by a termination     *)
(* never precedes the call-ended event of that session.                    *)
(***************************************************************************)
C33_CallEndedBeforeRelease ==
    \A i \in Insts : \A j \in sessions[i] :
        \A k \in {terminateSession(Mem, i, j)} :
            /\ Len(k.out) >= 3
            /\ k.out[1] = <<"call", "sess.localStream.stop", 0, j, "">>
            /\ k.out[2] = <<"event", "remote-player-remove", 0, j, "">>
            /\ k.out[3] = <<"event", "call-ended", 0, j, "">>
            /\ Positions(k, "call-ended") = {3}
            /\ \A x \in Positions(k, "local-player-remove") : x > 3
            /\ Teardowns(k) <= 1
            /\ j \notin k.sess[i]
            /\ (sessions[i] # {j}) => Len(k.out) = 3

\* The last session of an instance that holds the only reference: its
\* termination reports the end of the call and then tears the stream down.
C33_Witness ==
    \E i \in Insts : \E j \in sessions[i] :
        /\ sessions[i] = {j}
        /\ usedLocalStream[i] /\ Refs(gLocalStreamRefcount) = 1
        /\ Teardowns(terminateSession(Mem, i, j)) = 1

\* Somebody holds a clone of the shared stream: an outgoing invitation that
\* awaits its answer, or a registered session.  (The clone of an incoming
\* answer goes to its session in the same handler.)
CloneHeld ==
    \/ \E c \in Calls :
          Outgoing(c) /\ AwaitingAnswer(c) /\ call[c].sessStream
    \/ \E i \in Insts : sessions[i] # {}

(***************************************************************************)
(* C34: the shared local stream is never torn down while a pending         *)
(* outgoing invitation, an in-progress incoming answer or a registered     *)
(* session still holds a clone of it, also when a transport CONNFAIL or    *)
(* DISCONNECTING event, destroy(), or the resolution of another invitation *)
(* occurs while an invitation is still awaiting its answer.                *)
(***************************************************************************)
C34_NoTeardownWhileHeld == CloneHeld => (gLocalStream /\ captures >= 1)

\* The handler that ended in m sent the invitation of call c and left its
\* handlers and its deadline timer registered.
InvitationGoesOut(m, c) ==
    /\ Positions(m, "megaCall") # {}
    /\ m.call[c].ansReg /\ m.call[c].declReg
    /\ m.call[c].timer = "armed"

(***************************************************************************)
(* C35: a cancel() issued after startMediaCall returned but before the     *)
(* local-media acquisition completed prevents the call: either it returns  *)
(* true and no invitation message is ever sent, or, if it returns false,   *)
(* the invitation has already been resolved.  It is never the case that    *)
(* cancel() returns false and the invitation is sent afterwards with       *)
(* handlers and timer registered.                                          *)
(***************************************************************************)
C35_CancelBeforeMediaPreventsCall ==
    \A c \in Calls : (Outgoing(c) /\ Acquiring(c)) =>
        \A k1 \in {cancel(Mem, c)} :
            \A k \in {deviceOpened(Settled(k1), call[c].inst, c, n) :
                         n \in Requests(c)} :
                /\ k1.ret = "true" => Positions(k, "megaCall") = {}
                /\ k1.ret = "false" =>
                      /\ call[c].outcome # "none"
                      /\ ~InvitationGoesOut(k, c)

\* The handler that ended in m gave an accept reply for request c to the
\* media engine.
AcceptGiven(m, c) ==
    \E x \in EntriesOf(m, "ansFunc", c) : m.out[x][4] = "true"

(***************************************************************************)
(* C36: for an incoming request accepted with answer(true, ...) the accept *)
(* reply is given to the media engine only while the request is still      *)
(* valid: if the inviter cancels or the request times out while the local  *)
(* media is being acquired, no accept is given after the acquisition       *)
(* completes and the reference taken by that acquisition is released.      *)
(***************************************************************************)
C36_NoAcceptAfterExpiry ==
    \A d \in DuplicateReplies :
    \A c \in Calls : (Incoming(c) /\ Acquiring(c) /\ ~call[c].valid) =>
        \A k \in {deviceOpened(OnDuplicate(Mem, d), call[c].inst, c, n) : n \in Requests(c)} :
            /\ ~AcceptGiven(k, c)
            /\ Refs(k.refcount) <= Refs(gLocalStreamRefcount)

\* In the outputs of the handler that ended in m, for call c: the accept
\* handler and the decline handler are registered once each, then the
\* invitation is sent once, then the deadline timer is started once.
InvitationInOrder(m, c) ==
    /\ Cardinality(EntriesOf(m, "megaCallAnswer", c)) = 1
    /\ Cardinality(EntriesOf(m, "megaCallDecline", c)) = 1
    /\ Cardinality(EntriesOf(m, "megaCall", c)) = 1
    /\ Cardinality(EntriesOf(m, "callAnswerTimeout", c)) = 1
    /\ \A s \in EntriesOf(m, "megaCall", c) :
          /\ m.out[s][1] = "send"
          /\ \A h \in EntriesOf(m, "megaCallAnswer", c)
                       \cup EntriesOf(m, "megaCallDecline", c) :
                m.out[h][1] = "addHandler" /\ h < s
          /\ \A t \in EntriesOf(m, "callAnswerTimeout", c) :
                m.out[t][1] = "setTimeout" /\ s < t

\* Nothing of the invitation of call c exists: no handler is registered
\* and no timer was started.
NothingArmed(c) ==
    /\ ~call[c].ansReg /\ ~call[c].declReg
    /\ ~call[c].ansHandler /\ ~call[c].declineHandler
    /\ call[c].timer = "none"

(***************************************************************************)
(* C37: in startMediaCall the accept handler and the decline handler are   *)
(* both registered before the invitation message is sent and the deadline  *)
(* timer is started only after it is sent.  Whenever the media of an        *)
(* outgoing call gets ready (the device opens, or the shared stream is     *)
(* cloned at once), the handler registers the two handlers, then sends the *)
(* invitation, then starts the timer; and as long as the media is not      *)
(* ready no handler is registered and no timer runs, so the timer never    *)
(* fires for an invitation that was not sent.                              *)
(***************************************************************************)
C37_HandlersBeforeInvitation ==
    \A d \in DuplicateReplies :
    \A c \in Calls :
        /\ (Outgoing(c) /\ Acquiring(c)) =>
              /\ NothingArmed(c)
              /\ \A k \in {deviceOpened(OnDuplicate(Mem, d), call[c].inst, c, n) : n \in Requests(c)} :
                    IF k.thrown THEN EntriesOf(k, "megaCall", c) = {}
                                     /\ k.call[c].timer = "none"
                    ELSE InvitationInOrder(k, c)
        /\ FreeSlot(c) =>
              \A t \in Targets :
                  \A k \in {startMediaCall(Mem, c, 1, t, DefaultOptions)} :
                      IF k.call[c].gum = "done" THEN InvitationInOrder(k, c)
                      ELSE EntriesOf(k, "megaCall", c) = {}
                           /\ k.call[c].timer = "none"
        /\ (Outgoing(c) /\ call[c].timer # "none") => call[c].gum = "done"

\* The media of an outgoing call got ready: its two handlers are
\* registered, the invitation is out and the timer runs.
C37_Witness ==
    \E c \in Calls :
        /\ Outgoing(c) /\ call[c].gum = "done"
        /\ call[c].ansReg /\ call[c].declReg
        /\ call[c].timer = "armed" /\ call[c].outcome = "none"

\* The local-stream-obtained and local-player-remove events of the handler
\* that ended in m, in the order they were triggered.
StreamEvents(m) ==
    SelectSeq(m.out, LAMBDA e : e[1] = "event" /\
                 e[2] \in {"local-stream-obtained", "local-player-remove"})

\* The number of local-stream-obtained events the handler that ended in m
\* triggered.
Obtained(m) ==
    Cardinality({n \in 1..Len(m.out) :
        m.out[n][1] = "event" /\ m.out[n][2] = "local-stream-obtained"})

\* "on" after a local-stream-obtained that no local-player-remove followed,
\* "off" at the start and after a local-player-remove.
Phase(b) == IF b THEN "on" ELSE "off"

\* The phase the events evs lead to from the phase ph, "bad" when two
\* events of the same name follow each other.
RECURSIVE Alternation(_, _)
Alternation(evs, ph) ==
    IF evs = <<>> \/ ph = "bad" THEN ph
    ELSE IF Head(evs)[2] = "local-stream-obtained"
    THEN Alternation(Tail(evs), IF ph = "off" THEN "on" ELSE "bad")
    ELSE Alternation(Tail(evs), IF ph = "on" THEN "off" ELSE "bad")

\* The two events alternate in every handler that can run in the current
\* state, the local player telling the phase between the handlers.
EventsAlternate ==
    \A d \in DuplicateReplies :
    /\ \A k \in RegistryResults :
          Alternation(StreamEvents(k), Phase(gLocalVid)) = Phase(k.vid)
    /\ \A c \in Calls : \A from \in FullJids :
          call[c].ansReg =>
             \A k \in {onCallAnswer(OnDuplicate(Mem, d), c, from)} :
                Alternation(StreamEvents(k), Phase(gLocalVid)) = Phase(k.vid)
    /\ \A c \in Calls : \A err \in DeviceErrors :
          Acquiring(c) =>
             \A k \in {deviceFailed(Mem, call[c].inst, c, n, err) :
                          n \in Requests(c)} :
                Alternation(StreamEvents(k), Phase(gLocalVid)) = Phase(k.vid)

(***************************************************************************)
(* C38: local-stream-obtained and local-player-remove strictly alternate,  *)
(* starting with local-stream-obtained (the local player, unset at the     *)
(* start, tells between the handlers which of the two came last);          *)
(* local-stream-obtained fires once each time the capture device is        *)
(* opened, and not when a call clones the stream that is already open.     *)
(***************************************************************************)
C38_ObtainedAndRemoveAlternate ==
    \A d \in DuplicateReplies :
    /\ EventsAlternate
    /\ \A c \in Calls : Acquiring(c) =>
          \A k \in {deviceOpened(OnDuplicate(Mem, d), call[c].inst, c, n) : n \in Requests(c)} :
              k.captures = captures + 1 /\ Obtained(k) = 1
    /\ \A c \in Calls : (FreeSlot(c) /\ gLocalStream) =>
          \A t \in Targets :
              \A k \in {startMediaCall(Mem, c, 1, t, DefaultOptions)} :
                  k.captures = captures /\ Obtained(k) = 0

\* The state after construction, with a message body whose text is any
\* text of at most MaxText characters.
InitEscape ==
    /\ gLocalStream = FALSE
    /\ gLocalStreamRefcount = NoNumber
    /\ gLocalVid = FALSE
    /\ captures = 0
    /\ usedLocalStream = [i \in Insts |-> FALSE]
    /\ sessions = [i \in Insts |-> {}]
    /\ sessionOrder = [i \in Insts |-> <<>>]
    /\ acquired = [i \in Insts |-> FALSE]
    /\ call = [c \in Calls |-> NoCall]
    /\ deviceTracks = StreamTracks
    /\ presenceHandlers = [i \in Insts |-> 0]
    /\ connected = [i \in Insts |-> FALSE]
    /\ \E t \in TextsUpTo(MaxText) :
          bodyText = [plain |-> t, text |-> t, stage |-> "plain"]

\* The sender escapes the text of the body.
XmlEscape ==
    /\ bodyText.stage = "plain"
    /\ bodyText' = [bodyText EXCEPT !.text = xmlEscape(@),
                                    !.stage = "escaped"]
    /\ UNCHANGED <<gLocalStream, gLocalStreamRefcount, gLocalVid, captures,
                   usedLocalStream, sessions, sessionOrder, acquired,
                   call, deviceTracks,
                   presenceHandlers, connected>>

\* RtcSession.xmlUnescape is applied to the escaped text.
XmlUnescape ==
    /\ bodyText.stage = "escaped"
    /\ bodyText' = [bodyText EXCEPT !.text = xmlUnescape(@),
                                    !.stage = "unescaped"]
    /\ UNCHANGED <<gLocalStream, gLocalStreamRefcount, gLocalVid, captures,
                   usedLocalStream, sessions, sessionOrder, acquired,
                   call, deviceTracks,
                   presenceHandlers, connected>>

NextEscape == XmlEscape \/ XmlUnescape

SpecEscape == InitEscape /\ [][NextEscape]_vars

(***************************************************************************)
(* C39: RtcSession.xmlUnescape is the inverse of standard XML escaping of  *)
(* the five characters: for every text, unescaping its escaped form gives  *)
(* the text back, also when the text contains an entity-like sequence such *)
(* as "&lt;".                                                              *)
(***************************************************************************)
C39_UnescapeInvertsEscape ==
    bodyText.stage = "unescaped" => bodyText.text = bodyText.plain

====
